---- MODULE Spec2Model ----
(***************************************************************************)
(* A model of nbu-export: the parser of Nokia NBU backup files (nbu_open), *)
(* the exporter that replays the recorded byte ranges into files           *)
(* (nbu_export) and the UTF-16 -> UTF-8 transcoder they use.               *)
(*                                                                         *)
(* The backup file is a sequence of bytes and the stream is a cursor into  *)
(* it.  Every read decodes the bytes under the cursor as the C code does.  *)
(* Values the file declares that exceed 2^24 (far beyond any file of the   *)
(* model) are kept as the saturated offset Far; 64-bit positions are kept  *)
(* as their eight bytes so that the additions the code performs on them    *)
(* wrap as uint64_t does and their conversion to long keeps its sign.      *)
(* long is 64 bits wide.  The destination tree is a writable directory in  *)
(* which openat(O_CREAT | O_EXCL) fails only on an existing name, and      *)
(* malloc does not fail except where malloc(0) may return NULL.            *)
(***************************************************************************)
EXTENDS Integers, Sequences, FiniteSets, TLC

\* ------------------------------------------------------------------ bounds

\* Largest number of entries of the section table of a generated file.
MaxSections == 2

\* Largest number of nbu_export calls made on one open backup.
MaxExports == 2

\* ------------------------------------------------------------ byte helpers

\* Offsets of 2^24 and more are beyond every file of the model.
Far == 256 * 256 * 256

Min(a, b) == IF a < b THEN a ELSE b

\* Op applied to the value of v: a local variable assigned once.  v is
\* evaluated where it is bound, as the statement that assigns it is executed.
Let(v, Op(_)) == CHOOSE y \in {Op(x) : x \in {v}} : TRUE

RECURSIVE Zeros(_)
Zeros(n) == IF n <= 0 THEN <<>> ELSE <<0>> \o Zeros(n - 1)

\* The k little-endian bytes of n, as the writer of a file lays them out.
RECURSIVE LE(_, _)
LE(n, k) == IF k = 0 THEN <<>> ELSE <<n % 256>> \o LE(n \div 256, k - 1)

RECURSIVE Flatten(_)
Flatten(ss) == IF ss = <<>> THEN <<>> ELSE Head(ss) \o Flatten(Tail(ss))

\* le16toh / le32toh of the bytes b; a value of 2^24 or more saturates.
le16toh(b) == b[1] + 256 * b[2]

le32toh(b) == IF b[4] # 0 THEN Far ELSE b[1] + 256 * b[2] + 65536 * b[3]

\* uint64_t addition u + k (k < 256) on the eight little-endian bytes of u.
RECURSIVE AddU64(_, _)
AddU64(u, k) ==
    IF u = <<>> THEN <<>>
    ELSE <<(Head(u) + k) % 256>> \o AddU64(Tail(u), (Head(u) + k) \div 256)

\* The conversion of a uint64_t to the long that fseek takes: negative when
\* the top bit is set, exact below 2^24, Far otherwise.
ToLong(u) ==
    IF u[8] >= 128 THEN -1
    ELSE IF u[4] = 0 /\ u[5] = 0 /\ u[6] = 0 /\ u[7] = 0 /\ u[8] = 0
         THEN u[1] + 256 * u[2] + 65536 * u[3]
         ELSE Far

\* ------------------------------------------------------ primitive reader

\* fread(ptr, size, 1, fp) != 1: a read of size bytes at cur.  fread returns 0
\* for size = 0, and a short read leaves the cursor at the end of the file.
\* The buffer of a failed read, which no caller looks at, is given as zeros,
\* and so is the string of a failed string read (the empty string).
nbu_read(f, cur, size) ==
    IF size > 0 /\ cur + size <= Len(f)
    THEN [ok |-> TRUE, v |-> SubSeq(f, cur + 1, cur + size), cur |-> cur + size]
    ELSE [ok |-> FALSE, v |-> [i \in 1..size |-> 0],
          cur |-> IF size = 0 \/ cur >= Len(f) THEN cur ELSE Len(f)]

nbu_read_uint8(f, cur) ==
    Let(nbu_read(f, cur, 1), LAMBDA r :
        [ok |-> r.ok, v |-> IF r.ok THEN r.v[1] ELSE 0, cur |-> r.cur])

nbu_read_uint16(f, cur) ==
    Let(nbu_read(f, cur, 2), LAMBDA r :
        [ok |-> r.ok, v |-> IF r.ok THEN le16toh(r.v) ELSE 0, cur |-> r.cur])

nbu_read_uint32(f, cur) ==
    Let(nbu_read(f, cur, 4), LAMBDA r :
        [ok |-> r.ok, v |-> IF r.ok THEN le32toh(r.v) ELSE 0, cur |-> r.cur])

\* The value is the eight bytes read, least significant first.
nbu_read_uint64(f, cur) ==
    Let(nbu_read(f, cur, 8), LAMBDA r :
        [ok |-> r.ok, v |-> IF r.ok THEN r.v ELSE Zeros(8), cur |-> r.cur])

\* The loop of nbu_read_utf16_n: iteration i (from 0) calls nbu_read_uint16
\* at cur + 2 * i.  With fit the number of whole code units between cur and
\* the end of the file, the loop stores len code units when len <= fit and
\* otherwise returns in iteration fit, where the read fails.
ReadUnits(f, cur, len) ==
    Let(IF cur >= Len(f) THEN 0 ELSE (Len(f) - cur) \div 2, LAMBDA fit :
        IF len <= fit
        THEN [ok |-> TRUE,
              v |-> [i \in 1..len |->
                        nbu_read_uint16(f, cur + 2 * (i - 1)).v],
              cur |-> cur + 2 * len]
        ELSE [ok |-> FALSE, v |-> <<>>,
              cur |-> nbu_read_uint16(f, cur + 2 * fit).cur])

\* A reader that takes the count 0xFFFF for "string too long".
nbu_read_utf16_n_sentinel(f, cur, len) ==
    IF len = 65535 THEN [ok |-> FALSE, v |-> <<0>>, cur |-> cur]
    ELSE Let(ReadUnits(f, cur, len), LAMBDA r :
             [ok |-> r.ok, v |-> IF r.ok THEN r.v \o <<0>> ELSE <<0>>,
              cur |-> r.cur])

\* len is a size_t made from a uint16_t or from half a uint32_t: it never
\* equals SIZE_MAX, so the "too long" branch is dead.
nbu_read_utf16_n(f, cur, len) ==
    Let(ReadUnits(f, cur, len), LAMBDA r :
        [ok |-> r.ok, v |-> IF r.ok THEN r.v \o <<0>> ELSE <<0>>, cur |-> r.cur])

nbu_read_utf16(f, cur) ==
    Let(nbu_read_uint16(f, cur), LAMBDA l :
        IF ~l.ok THEN [ok |-> FALSE, v |-> <<0>>, cur |-> l.cur]
        ELSE nbu_read_utf16_n(f, l.cur, l.v))

\* hi word first; the 64-bit value is kept as its two words.
nbu_read_file_time(f, cur) ==
    Let(nbu_read(f, cur, 4), LAMBDA hi :
    Let(nbu_read(f, hi.cur, 4), LAMBDA lo :
        IF ~hi.ok THEN [ok |-> FALSE, v |-> <<>>, cur |-> hi.cur]
        ELSE IF ~lo.ok THEN [ok |-> FALSE, v |-> <<>>, cur |-> lo.cur]
        ELSE [ok |-> TRUE, v |-> <<hi.v, lo.v>>, cur |-> lo.cur]))

\* fseek(fp, offset, SEEK_SET): fails on a negative offset.
nbu_seek_set(cur, offset) ==
    IF offset < 0 THEN [ok |-> FALSE, cur |-> cur]
    ELSE [ok |-> TRUE, cur |-> Min(offset, Far)]

\* fseek(fp, offset, SEEK_CUR) with the non-negative offsets the code passes.
nbu_seek_cur(cur, offset) == [ok |-> TRUE, cur |-> Min(cur + offset, Far)]

\* --------------------------------------------------------- UTF transcoder

UTF_REPLACEMENT_CHAR == 65533

UTF_CODEPOINT_MAX == 1114111

\* The bytes utf8_encode writes for cp; none for cp above UTF_CODEPOINT_MAX.
utf8_encode(cp) ==
    IF cp <= 127 THEN <<cp>>
    ELSE IF cp <= 2047
         THEN <<192 + ((cp \div 64) % 32), 128 + (cp % 64)>>
    ELSE IF cp <= 65535
         THEN <<224 + ((cp \div 4096) % 16), 128 + ((cp \div 64) % 64),
                128 + (cp % 64)>>
    ELSE IF cp <= UTF_CODEPOINT_MAX
         THEN <<240 + ((cp \div 262144) % 8), 128 + ((cp \div 4096) % 64),
                128 + ((cp \div 64) % 64), 128 + (cp % 64)>>
    ELSE <<>>

\* (u & 0xf800) == 0xd800
utf16_is_surrogate(u) == u \div 2048 = 27

\* (u & 0xfc00) == 0xd800
utf16_is_high_surrogate(u) == u \div 1024 = 54

\* (u & 0xfc00) == 0xdc00
utf16_is_low_surrogate(u) == u \div 1024 = 55

utf16_decode_surrogate_pair(hi, lo) ==
    ((hi % 1024) * 1024 + (lo % 1024)) + 65536

\* A decoder that returns 1 for a surrogate that forms no pair.
utf16_decode_one_for_invalid(u1, u2) ==
    IF ~utf16_is_surrogate(u1) THEN [cp |-> u1, n |-> 1]
    ELSE IF utf16_is_high_surrogate(u1) /\ utf16_is_low_surrogate(u2)
         THEN [cp |-> utf16_decode_surrogate_pair(u1, u2), n |-> 2]
    ELSE [cp |-> UTF_REPLACEMENT_CHAR, n |-> 1]

\* cp is the codepoint stored through the pointer, n the value returned.
utf16_decode(u1, u2) ==
    IF ~utf16_is_surrogate(u1) THEN [cp |-> u1, n |-> 1]
    ELSE IF utf16_is_high_surrogate(u1) /\ utf16_is_low_surrogate(u2)
         THEN [cp |-> utf16_decode_surrogate_pair(u1, u2), n |-> 2]
    ELSE [cp |-> UTF_REPLACEMENT_CHAR, n |-> 0]

\* A loop whose fill pass stops when the sequence only just fits.
RECURSIVE ConvertLoop_tight(_, _, _, _, _)
ConvertLoop_tight(fill, bufsize, utf16, i, out) ==
    IF utf16[i + 1] = 0 THEN out
    ELSE Let(utf16_decode(utf16[i + 1], utf16[i + 2]), LAMBDA d :
         Let(IF d.n = 0 THEN 1 ELSE d.n, LAMBDA n :
         Let(utf8_encode(d.cp), LAMBDA seq :
             IF fill /\ bufsize - Len(out) - 1 < 4
                  /\ Len(seq) >= bufsize - Len(out) - 1
             THEN out
             ELSE ConvertLoop_tight(fill, bufsize, utf16, i + n, out \o seq))))

\* The loop of utf16_convert_string_to_utf8 from code unit i (counted from 0)
\* with out the bytes produced so far.  fill is FALSE for the size-only pass
\* (buf == NULL).  utf16 is zero-terminated, so utf16[i + 1] exists whenever
\* utf16[i] is not the terminator.  The SIZE_MAX saturation of the size-only
\* pass needs a string of 2^64 bytes and is left out.
RECURSIVE ConvertLoop(_, _, _, _, _)
ConvertLoop(fill, bufsize, utf16, i, out) ==
    IF utf16[i + 1] = 0 THEN out
    ELSE Let(utf16_decode(utf16[i + 1], utf16[i + 2]), LAMBDA d :
         Let(IF d.n = 0 THEN 1 ELSE d.n, LAMBDA n :
         Let(utf8_encode(d.cp), LAMBDA seq :
             IF fill /\ bufsize - Len(out) - 1 < 4
                  /\ Len(seq) > bufsize - Len(out) - 1
             THEN out
             ELSE ConvertLoop(fill, bufsize, utf16, i + n, out \o seq))))

\* n is the value returned; buf is what the fill pass leaves in the buffer,
\* terminator included (nothing when buf == NULL or bufsize == 0).
utf16_convert_string_to_utf8(fill, bufsize, utf16) ==
    IF fill /\ bufsize = 0 THEN [n |-> 0, buf |-> <<>>]
    ELSE Let(ConvertLoop(fill, bufsize, utf16, 0, <<>>), LAMBDA out :
             [n |-> Len(out), buf |-> IF fill THEN out \o <<0>> ELSE <<>>])

\* The size-only pass, then the fill pass into malloc(size + 1).
nbu_convert_utf16_to_utf8(utf16) ==
    Let(utf16_convert_string_to_utf8(FALSE, 0, utf16).n, LAMBDA size :
        utf16_convert_string_to_utf8(TRUE, size + 1, utf16).buf)

\* strlen of a zero-terminated byte string.
RECURSIVE strlen(_)
strlen(s) == IF Head(s) = 0 THEN 0 ELSE 1 + strlen(Tail(s))

\* ------------------------------------------------------ item/folder model

\* A list pointer: alloc is FALSE for NULL; q holds the queue in order.
NullList == [alloc |-> FALSE, q |-> <<>>]

nbu_new_item_list == [alloc |-> TRUE, q |-> <<>>]

nbu_new_folder_list == [alloc |-> TRUE, q |-> <<>>]

\* An item recorded with the position that follows its payload.
nbu_add_item_at_end(q, pos, len) == Append(q, [pos |-> pos + len, len |-> len])

\* STAILQ_INSERT_TAIL of a new item.
nbu_add_item(q, pos, len) == Append(q, [pos |-> pos, len |-> len])

\* A folder: name is NULL (<<>>) until read, items starts empty.
nbu_new_folder == [name |-> <<>>, items |-> <<>>]

\* ------------------------------------------------- flat item-list handlers

\* A loop that reads both validation words of every record.
RECURSIVE nbu_read_vcards_loop_two_words(_, _, _, _, _)
nbu_read_vcards_loop_two_words(f, cur, q, i, nitems) ==
    IF i >= nitems THEN [ok |-> TRUE, cur |-> cur, q |-> q]
    ELSE
    Let(nbu_read_uint32(f, cur), LAMBDA t1 :
    Let(nbu_read_uint32(f, t1.cur), LAMBDA t2 :
    Let(nbu_read_uint32(f, t2.cur), LAMBDA len :
    Let(nbu_seek_cur(len.cur, len.v), LAMBDA sk :
        IF ~t1.ok THEN [ok |-> FALSE, cur |-> t1.cur, q |-> q]
        ELSE IF ~t2.ok THEN [ok |-> FALSE, cur |-> t2.cur, q |-> q]
        ELSE IF ~len.ok THEN [ok |-> FALSE, cur |-> len.cur, q |-> q]
        ELSE nbu_read_vcards_loop_two_words(f, sk.cur,
                 nbu_add_item(q, len.cur, len.v), i + 1, nitems)))))

\* The loop of nbu_read_vcards from iteration i; q is the list so far.
RECURSIVE nbu_read_vcards_loop(_, _, _, _, _)
nbu_read_vcards_loop(f, cur, q, i, nitems) ==
    IF i >= nitems THEN [ok |-> TRUE, cur |-> cur, q |-> q]
    ELSE
    Let(nbu_read_uint32(f, cur), LAMBDA t1 :
    Let(IF t1.ok /\ t1.v = 16 THEN nbu_read_uint32(f, t1.cur) ELSE t1,
        LAMBDA t2 :
    Let(nbu_read_uint32(f, t2.cur), LAMBDA len :
    Let(nbu_seek_cur(len.cur, len.v), LAMBDA sk :
        IF ~t1.ok THEN [ok |-> FALSE, cur |-> t1.cur, q |-> q]
        ELSE IF ~t2.ok THEN [ok |-> FALSE, cur |-> t2.cur, q |-> q]
        ELSE IF ~len.ok THEN [ok |-> FALSE, cur |-> len.cur, q |-> q]
        ELSE nbu_read_vcards_loop(f, sk.cur, nbu_add_item(q, len.cur, len.v),
                                  i + 1, nitems)))))

nbu_read_vcards(f, cur, q) ==
    Let(nbu_read_uint32(f, cur), LAMBDA n :
        IF ~n.ok THEN [ok |-> FALSE, cur |-> n.cur, q |-> q]
        ELSE nbu_read_vcards_loop(f, n.cur, q, 0, n.v))

\* On any error the list is freed and the pointer reset to NULL.
nbu_read_vcard_section(f, cur, section_pos) ==
    LET error(c) == [ok |-> FALSE, cur |-> c, list |-> NullList]
    IN
    Let(nbu_read_uint32(f, cur), LAMBDA nitems :
    Let(nbu_read_uint32(f, nitems.cur), LAMBDA nfolders :
    Let(nfolders.cur, LAMBDA pos :
    Let(nbu_seek_set(pos, ToLong(AddU64(section_pos, 44))), LAMBDA sk :
    Let(nbu_read_vcards(f, sk.cur, <<>>), LAMBDA vc :
    Let(nbu_seek_set(vc.cur, pos), LAMBDA back :
        IF ~nitems.ok THEN error(nitems.cur)
        ELSE IF ~nfolders.ok THEN error(nfolders.cur)
        ELSE IF nfolders.v # 0 THEN error(nfolders.cur)
        ELSE IF ~sk.ok THEN error(sk.cur)
        ELSE IF ~vc.ok THEN error(vc.cur)
        ELSE [ok |-> TRUE, cur |-> back.cur,
              list |-> [alloc |-> TRUE, q |-> vc.q]]))))))

\* ---------------------------------------------------- folder-table handlers

\* ok is FALSE when NULL is returned (the folder was freed).
nbu_read_vcard_folder(f, cur, folder_pos) ==
    LET error(c) == [ok |-> FALSE, cur |-> c, folder |-> nbu_new_folder]
    IN
    Let(nbu_seek_set(cur, ToLong(AddU64(folder_pos, 4))), LAMBDA sk :
    Let(nbu_read_utf16(f, sk.cur), LAMBDA name :
    Let(nbu_read_vcards(f, name.cur, <<>>), LAMBDA vc :
        IF ~sk.ok THEN error(sk.cur)
        ELSE IF ~name.ok THEN error(name.cur)
        ELSE IF ~vc.ok THEN error(vc.cur)
        ELSE [ok |-> TRUE, cur |-> vc.cur,
              folder |-> [name |-> name.v, items |-> vc.q]])))

RECURSIVE nbu_read_vcard_folder_section_loop(_, _, _, _, _)
nbu_read_vcard_folder_section_loop(f, cur, q, i, nfolders) ==
    IF i >= nfolders THEN [ok |-> TRUE, cur |-> cur, q |-> q]
    ELSE
    Let(nbu_seek_cur(cur, 4), LAMBDA sk :
    Let(nbu_read_uint64(f, sk.cur), LAMBDA fp :
    Let(fp.cur, LAMBDA pos :
    Let(nbu_read_vcard_folder(f, pos, fp.v), LAMBDA fo :
    Let(nbu_seek_set(fo.cur, pos), LAMBDA back :
        IF ~fp.ok THEN [ok |-> FALSE, cur |-> fp.cur, q |-> q]
        ELSE IF ~fo.ok THEN [ok |-> FALSE, cur |-> fo.cur, q |-> q]
        ELSE nbu_read_vcard_folder_section_loop(
                 f, back.cur, Append(q, fo.folder), i + 1, nfolders))))))

\* On any error the folder list is freed and the pointer reset to NULL.
nbu_read_vcard_folder_section(f, cur) ==
    LET error(c) == [ok |-> FALSE, cur |-> c, list |-> NullList]
    IN
    Let(nbu_read_uint32(f, cur), LAMBDA nitems :
    Let(nbu_read_uint32(f, nitems.cur), LAMBDA nfolders :
    Let(nbu_read_vcard_folder_section_loop(f, nfolders.cur, <<>>, 0,
                                                 nfolders.v), LAMBDA lp :
        IF ~nitems.ok THEN error(nitems.cur)
        ELSE IF ~nfolders.ok THEN error(nfolders.cur)
        ELSE IF ~lp.ok THEN error(lp.cur)
        ELSE [ok |-> TRUE, cur |-> lp.cur,
              list |-> [alloc |-> TRUE, q |-> lp.q]])))

nbu_read_group_folder(f, cur, folder_pos) ==
    LET error(c) == [ok |-> FALSE, cur |-> c, folder |-> nbu_new_folder]
    IN
    Let(nbu_seek_set(cur, ToLong(AddU64(folder_pos, 4))), LAMBDA sk :
    Let(nbu_read_utf16(f, sk.cur), LAMBDA name :
    Let(nbu_read_uint32(f, name.cur), LAMBDA nitems :
        IF ~sk.ok THEN error(sk.cur)
        ELSE IF ~name.ok THEN error(name.cur)
        ELSE IF ~nitems.ok THEN error(nitems.cur)
        ELSE [ok |-> TRUE, cur |-> nitems.cur,
              folder |-> [name |-> name.v, items |-> <<>>]])))

\* The item loop of nbu_read_message_folder.
RECURSIVE nbu_read_message_folder_loop(_, _, _, _, _)
nbu_read_message_folder_loop(f, cur, q, i, nitems) ==
    IF i >= nitems THEN [ok |-> TRUE, cur |-> cur, q |-> q]
    ELSE
    Let(nbu_seek_cur(cur, 8), LAMBDA sk :
    Let(nbu_read_uint32(f, sk.cur), LAMBDA len :
    Let(nbu_seek_cur(len.cur, len.v), LAMBDA fw :
        IF ~len.ok THEN [ok |-> FALSE, cur |-> len.cur, q |-> q]
        ELSE nbu_read_message_folder_loop(
                 f, fw.cur, nbu_add_item(q, len.cur, len.v), i + 1, nitems))))

nbu_read_message_folder(f, cur, folder_pos) ==
    LET error(c) == [ok |-> FALSE, cur |-> c, folder |-> nbu_new_folder]
    IN
    Let(nbu_seek_set(cur, ToLong(AddU64(folder_pos, 4))), LAMBDA sk :
    Let(nbu_read_utf16(f, sk.cur), LAMBDA name :
    Let(nbu_read_uint32(f, name.cur), LAMBDA nitems :
    Let(nbu_read_message_folder_loop(f, nitems.cur, <<>>, 0, nitems.v),
        LAMBDA lp :
        IF ~sk.ok THEN error(sk.cur)
        ELSE IF ~name.ok THEN error(name.cur)
        ELSE IF ~nitems.ok THEN error(nitems.cur)
        ELSE IF ~lp.ok THEN error(lp.cur)
        ELSE [ok |-> TRUE, cur |-> lp.cur,
              folder |-> [name |-> name.v, items |-> lp.q]]))))

\* The sub-record loop of an MMS item: skip 8 bytes, read one string.
RECURSIVE nbu_read_mms_strings(_, _, _, _)
nbu_read_mms_strings(f, cur, j, n) ==
    IF j >= n THEN [ok |-> TRUE, cur |-> cur]
    ELSE Let(nbu_seek_cur(cur, 8), LAMBDA sk :
         Let(nbu_read_utf16(f, sk.cur), LAMBDA str :
             IF ~str.ok THEN [ok |-> FALSE, cur |-> str.cur]
             ELSE nbu_read_mms_strings(f, str.cur, j + 1, n)))

\* The item loop of nbu_read_mms_folder.
RECURSIVE nbu_read_mms_folder_loop(_, _, _, _, _)
nbu_read_mms_folder_loop(f, cur, q, i, nitems) ==
    IF i >= nitems THEN [ok |-> TRUE, cur |-> cur, q |-> q]
    ELSE
    Let(nbu_seek_cur(cur, 8), LAMBDA sk :
    Let(nbu_read_uint8(f, sk.cur), LAMBDA n :
    Let(nbu_read_mms_strings(f, n.cur, 0, n.v), LAMBDA strs :
    Let(nbu_seek_cur(strs.cur, 20), LAMBDA sk2 :
    Let(nbu_read_uint32(f, sk2.cur), LAMBDA len :
    Let(nbu_seek_cur(len.cur, len.v), LAMBDA fw :
        IF ~n.ok THEN [ok |-> FALSE, cur |-> n.cur, q |-> q]
        ELSE IF ~strs.ok THEN [ok |-> FALSE, cur |-> strs.cur, q |-> q]
        ELSE IF ~len.ok THEN [ok |-> FALSE, cur |-> len.cur, q |-> q]
        ELSE nbu_read_mms_folder_loop(
                 f, fw.cur, nbu_add_item(q, len.cur, len.v), i + 1,
                 nitems)))))))

nbu_read_mms_folder(f, cur, folder_pos) ==
    LET error(c) == [ok |-> FALSE, cur |-> c, folder |-> nbu_new_folder]
    IN
    Let(nbu_seek_set(cur, ToLong(AddU64(folder_pos, 4))), LAMBDA sk :
    Let(nbu_read_utf16(f, sk.cur), LAMBDA name :
    Let(nbu_read_uint32(f, name.cur), LAMBDA nitems :
    Let(nbu_read_mms_folder_loop(f, nitems.cur, <<>>, 0, nitems.v), LAMBDA lp :
        IF ~sk.ok THEN error(sk.cur)
        ELSE IF ~name.ok THEN error(name.cur)
        ELSE IF ~nitems.ok THEN error(nitems.cur)
        ELSE IF ~lp.ok THEN error(lp.cur)
        ELSE [ok |-> TRUE, cur |-> lp.cur,
              folder |-> [name |-> name.v, items |-> lp.q]]))))

\* --------------------------------------------------------- section handlers

\* calloc: no metadata, no list.
EmptyCtx ==
    [backup_time |-> <<>>, phone_imei |-> <<>>, phone_model |-> <<>>,
     phone_name |-> <<>>, phone_firmware |-> <<>>, phone_language |-> <<>>,
     bookmarks |-> NullList, messages |-> NullList, mmses |-> NullList,
     calendar |-> NullList, contacts |-> NullList, memos |-> NullList]

\* Every handler takes the file, the cursor at entry, the context and the
\* section position of the table entry (eight bytes) and yields the value
\* returned (ok), the cursor it leaves and the context it leaves.
nbu_read_calendar_section(f, cur, ctx, section_pos) ==
    Let(nbu_read_vcard_section(f, cur, section_pos), LAMBDA r :
        [ok |-> r.ok, cur |-> r.cur, ctx |-> [ctx EXCEPT !.calendar = r.list]])

nbu_read_contacts_section(f, cur, ctx, section_pos) ==
    Let(nbu_read_vcard_section(f, cur, section_pos), LAMBDA r :
        [ok |-> r.ok, cur |-> r.cur, ctx |-> [ctx EXCEPT !.contacts = r.list]])

nbu_read_bookmarks_section(f, cur, ctx, section_pos) ==
    Let(nbu_read_vcard_folder_section(f, cur), LAMBDA r :
        [ok |-> r.ok, cur |-> r.cur, ctx |-> [ctx EXCEPT !.bookmarks = r.list]])

\* A loop that stays where the group folder was read.
RECURSIVE nbu_read_groups_section_loop_staying(_, _, _, _)
nbu_read_groups_section_loop_staying(f, cur, i, ngroups) ==
    IF i >= ngroups THEN [ok |-> TRUE, cur |-> cur]
    ELSE
    Let(nbu_seek_cur(cur, 4), LAMBDA sk :
    Let(nbu_read_uint64(f, sk.cur), LAMBDA fp :
    Let(fp.cur, LAMBDA pos :
    Let(nbu_read_group_folder(f, pos, fp.v), LAMBDA fo :
        IF ~fp.ok THEN [ok |-> FALSE, cur |-> fp.cur]
        ELSE IF ~fo.ok THEN [ok |-> FALSE, cur |-> fo.cur]
        ELSE nbu_read_groups_section_loop_staying(f, fo.cur, i + 1,
                                                  ngroups)))))

\* The folder is read and freed; nothing is kept.
RECURSIVE nbu_read_groups_section_loop(_, _, _, _)
nbu_read_groups_section_loop(f, cur, i, ngroups) ==
    IF i >= ngroups THEN [ok |-> TRUE, cur |-> cur]
    ELSE
    Let(nbu_seek_cur(cur, 4), LAMBDA sk :
    Let(nbu_read_uint64(f, sk.cur), LAMBDA fp :
    Let(fp.cur, LAMBDA pos :
    Let(nbu_read_group_folder(f, pos, fp.v), LAMBDA fo :
    Let(nbu_seek_set(fo.cur, pos), LAMBDA back :
        IF ~fp.ok THEN [ok |-> FALSE, cur |-> fp.cur]
        ELSE IF ~fo.ok THEN [ok |-> FALSE, cur |-> fo.cur]
        ELSE nbu_read_groups_section_loop(f, back.cur, i + 1, ngroups))))))

nbu_read_groups_section(f, cur, ctx, section_pos) ==
    Let(nbu_read_uint32(f, cur), LAMBDA n :
    Let(nbu_read_uint32(f, n.cur), LAMBDA ngroups :
    Let(nbu_read_groups_section_loop(f, ngroups.cur, 0, ngroups.v), LAMBDA lp :
        IF ~n.ok THEN [ok |-> FALSE, cur |-> n.cur, ctx |-> ctx]
        ELSE IF ~ngroups.ok THEN [ok |-> FALSE, cur |-> ngroups.cur, ctx |-> ctx]
        ELSE [ok |-> lp.ok, cur |-> lp.cur, ctx |-> ctx])))

\* The folder position is read and the cursor re-set to where it already is.
RECURSIVE nbu_read_advanced_settings_section_loop(_, _, _, _)
nbu_read_advanced_settings_section_loop(f, cur, i, nfolders) ==
    IF i >= nfolders THEN [ok |-> TRUE, cur |-> cur]
    ELSE
    Let(nbu_seek_cur(cur, 4), LAMBDA sk :
    Let(nbu_read_uint64(f, sk.cur), LAMBDA fp :
    Let(fp.cur, LAMBDA pos :
    Let(nbu_seek_set(fp.cur, pos), LAMBDA back :
        IF ~fp.ok THEN [ok |-> FALSE, cur |-> fp.cur]
        ELSE nbu_read_advanced_settings_section_loop(f, back.cur, i + 1,
                                                     nfolders)))))

nbu_read_advanced_settings_section(f, cur, ctx, section_pos) ==
    Let(nbu_read_uint32(f, cur), LAMBDA n :
    Let(nbu_read_uint32(f, n.cur), LAMBDA nfolders :
    Let(nbu_read_advanced_settings_section_loop(f, nfolders.cur, 0,
                                                      nfolders.v), LAMBDA lp :
        IF ~n.ok THEN [ok |-> FALSE, cur |-> n.cur, ctx |-> ctx]
        ELSE IF ~nfolders.ok
             THEN [ok |-> FALSE, cur |-> nfolders.cur, ctx |-> ctx]
        ELSE [ok |-> lp.ok, cur |-> lp.cur, ctx |-> ctx])))

\* The memo loop: the length is in code units and doubled into bytes.
RECURSIVE nbu_read_memos_section_loop(_, _, _, _, _)
nbu_read_memos_section_loop(f, cur, q, i, nmemos) ==
    IF i >= nmemos THEN [ok |-> TRUE, cur |-> cur, q |-> q]
    ELSE
    Let(nbu_seek_cur(cur, 4), LAMBDA sk :
    Let(nbu_read_uint16(f, sk.cur), LAMBDA len :
    Let(len.cur, LAMBDA memo_pos :
    Let(nbu_seek_cur(memo_pos, len.v * 2), LAMBDA fw :
        IF ~len.ok THEN [ok |-> FALSE, cur |-> len.cur, q |-> q]
        ELSE IF len.v > 65535 \div 2
             THEN [ok |-> FALSE, cur |-> len.cur, q |-> q]
        ELSE nbu_read_memos_section_loop(
                 f, fw.cur, nbu_add_item(q, memo_pos, len.v * 2), i + 1,
                 nmemos)))))

\* ctx->memos is replaced first; an error returns without freeing it.
nbu_read_memos_section(f, cur, ctx, section_pos) ==
    LET with(q) == [ctx EXCEPT !.memos = [alloc |-> TRUE, q |-> q]]
    IN
    Let(nbu_read_uint32(f, cur), LAMBDA nmemos :
    Let(nmemos.cur + 4, LAMBDA pos :
    Let(nbu_seek_set(nmemos.cur, ToLong(AddU64(section_pos, 48))), LAMBDA sk :
    Let(nbu_read_memos_section_loop(f, sk.cur, <<>>, 0, nmemos.v), LAMBDA lp :
    Let(nbu_seek_set(lp.cur, pos), LAMBDA back :
        IF ~nmemos.ok THEN [ok |-> FALSE, cur |-> nmemos.cur, ctx |-> with(<<>>)]
        ELSE IF ~sk.ok THEN [ok |-> FALSE, cur |-> sk.cur, ctx |-> with(<<>>)]
        ELSE IF ~lp.ok THEN [ok |-> FALSE, cur |-> lp.cur, ctx |-> with(lp.q)]
        ELSE [ok |-> TRUE, cur |-> back.cur, ctx |-> with(lp.q)])))))

RECURSIVE nbu_read_messages_section_loop(_, _, _, _, _)
nbu_read_messages_section_loop(f, cur, q, i, nfolders) ==
    IF i >= nfolders THEN [ok |-> TRUE, cur |-> cur, q |-> q]
    ELSE
    Let(nbu_seek_cur(cur, 4), LAMBDA sk :
    Let(nbu_read_uint64(f, sk.cur), LAMBDA fp :
    Let(fp.cur, LAMBDA pos :
    Let(nbu_read_message_folder(f, pos, fp.v), LAMBDA fo :
    Let(nbu_seek_set(fo.cur, pos), LAMBDA back :
        IF ~fp.ok THEN [ok |-> FALSE, cur |-> fp.cur, q |-> q]
        ELSE IF ~fo.ok THEN [ok |-> FALSE, cur |-> fo.cur, q |-> q]
        ELSE nbu_read_messages_section_loop(
                 f, back.cur, Append(q, fo.folder), i + 1, nfolders))))))

\* ctx->messages is replaced first; an error returns without freeing it.
nbu_read_messages_section(f, cur, ctx, section_pos) ==
    LET with(q) == [ctx EXCEPT !.messages = [alloc |-> TRUE, q |-> q]]
    IN
    Let(nbu_read_uint32(f, cur), LAMBDA nmessages :
    Let(nbu_read_uint32(f, nmessages.cur), LAMBDA nfolders :
    Let(nbu_read_messages_section_loop(f, nfolders.cur, <<>>, 0,
                                             nfolders.v), LAMBDA lp :
        IF ~nmessages.ok
        THEN [ok |-> FALSE, cur |-> nmessages.cur, ctx |-> with(<<>>)]
        ELSE IF ~nfolders.ok
             THEN [ok |-> FALSE, cur |-> nfolders.cur, ctx |-> with(<<>>)]
        ELSE [ok |-> lp.ok, cur |-> lp.cur, ctx |-> with(lp.q)])))

RECURSIVE nbu_read_mms_section_loop(_, _, _, _, _)
nbu_read_mms_section_loop(f, cur, q, i, nfolders) ==
    IF i >= nfolders THEN [ok |-> TRUE, cur |-> cur, q |-> q]
    ELSE
    Let(nbu_seek_cur(cur, 4), LAMBDA sk :
    Let(nbu_read_uint64(f, sk.cur), LAMBDA fp :
    Let(fp.cur, LAMBDA pos :
    Let(nbu_read_mms_folder(f, pos, fp.v), LAMBDA fo :
    Let(nbu_seek_set(fo.cur, pos), LAMBDA back :
        IF ~fp.ok THEN [ok |-> FALSE, cur |-> fp.cur, q |-> q]
        ELSE IF ~fo.ok THEN [ok |-> FALSE, cur |-> fo.cur, q |-> q]
        ELSE nbu_read_mms_section_loop(
                 f, back.cur, Append(q, fo.folder), i + 1, nfolders))))))

\* ctx->mmses is replaced first; an error returns without freeing it.
nbu_read_mms_section(f, cur, ctx, section_pos) ==
    LET with(q) == [ctx EXCEPT !.mmses = [alloc |-> TRUE, q |-> q]]
    IN
    Let(nbu_read_uint32(f, cur), LAMBDA nmessages :
    Let(nbu_read_uint32(f, nmessages.cur), LAMBDA nfolders :
    Let(nbu_read_mms_section_loop(f, nfolders.cur, <<>>, 0, nfolders.v),
        LAMBDA lp :
        IF ~nmessages.ok
        THEN [ok |-> FALSE, cur |-> nmessages.cur, ctx |-> with(<<>>)]
        ELSE IF ~nfolders.ok
             THEN [ok |-> FALSE, cur |-> nfolders.cur, ctx |-> with(<<>>)]
        ELSE [ok |-> lp.ok, cur |-> lp.cur, ctx |-> with(lp.q)])))

\* --------------------------------------------------------- section dispatch

NBU_GUID_LEN == 16

\* The static table: identifier and the handler it selects.
nbu_sections ==
    << [guid |-> <<22, 205, 248, 232, 35, 94, 90, 78,
                   183, 53, 221, 223, 241, 72, 18, 34>>,
        read |-> "calendar"],
       [guid |-> <<31, 14, 88, 101, 161, 159, 60, 73,
                   158, 35, 14, 37, 235, 36, 15, 225>>,
        read |-> "groups"],
       [guid |-> <<45, 245, 104, 107, 31, 75, 34, 74,
                   146, 131, 27, 6, 195, 195, 154, 53>>,
        read |-> "advanced_settings"],
       [guid |-> <<71, 29, 212, 101, 239, 227, 50, 64,
                   140, 119, 100, 202, 163, 131, 170, 51>>,
        read |-> "mms"],
       [guid |-> <<92, 98, 151, 59, 220, 167, 84, 65,
                   161, 195, 5, 157, 227, 36, 104, 8>>,
        read |-> "memos"],
       [guid |-> <<97, 122, 239, 209, 170, 190, 161, 73,
                   157, 157, 21, 90, 187, 76, 235, 142>>,
        read |-> "messages"],
       [guid |-> <<127, 119, 144, 86, 49, 249, 87, 73,
                   141, 150, 238, 68, 93, 190, 188, 90>>,
        read |-> "bookmarks"],
       [guid |-> <<239, 212, 46, 208, 163, 81, 56, 71,
                   157, 215, 48, 92, 122, 240, 104, 211>>,
        read |-> "contacts"] >>

\* A comparison that stops one byte short of NBU_GUID_LEN.
GuidEqualShort(a, b) == \A k \in 1..(NBU_GUID_LEN - 1) : a[k] = b[k]

\* memcmp(a, b, NBU_GUID_LEN) == 0
GuidEqual(a, b) == \A k \in 1..NBU_GUID_LEN : a[k] = b[k]

\* The linear scan of nbu_read_section: the name of the first handler whose
\* identifier equals guid, "none" when the scan runs off the table.
RECURSIVE nbu_find_section(_, _)
nbu_find_section(guid, i) ==
    IF i > Len(nbu_sections) THEN "none"
    ELSE IF GuidEqual(guid, nbu_sections[i].guid) THEN nbu_sections[i].read
    ELSE nbu_find_section(guid, i + 1)

\* nbu_sections[i].read(ctx, pos) for the handler named h.
CallHandler(h, f, cur, ctx, pos) ==
    CASE h = "calendar" -> nbu_read_calendar_section(f, cur, ctx, pos)
      [] h = "groups" -> nbu_read_groups_section(f, cur, ctx, pos)
      [] h = "advanced_settings" ->
             nbu_read_advanced_settings_section(f, cur, ctx, pos)
      [] h = "mms" -> nbu_read_mms_section(f, cur, ctx, pos)
      [] h = "memos" -> nbu_read_memos_section(f, cur, ctx, pos)
      [] h = "messages" -> nbu_read_messages_section(f, cur, ctx, pos)
      [] h = "bookmarks" -> nbu_read_bookmarks_section(f, cur, ctx, pos)
      [] h = "contacts" -> nbu_read_contacts_section(f, cur, ctx, pos)

\* h is the handler invoked ("none": unsupported section, nothing invoked).
nbu_read_section(f, cur, ctx, guid, pos) ==
    Let(nbu_find_section(guid, 1), LAMBDA h :
        IF h = "none" THEN [ok |-> FALSE, cur |-> cur, ctx |-> ctx, h |-> h]
        ELSE Let(CallHandler(h, f, cur, ctx, pos), LAMBDA r :
                 [ok |-> r.ok, cur |-> r.cur, ctx |-> r.ctx, h |-> h]))

\* ------------------------------------------------------------------ nbu_open

\* nbu_open up to the section table: the info pointer at offset 20, the
\* backup time, the five phone strings, 20 skipped bytes.  A failure leaves
\* in the context what was read before it.
nbu_open_header(f) ==
    Let(nbu_seek_set(0, 20), LAMBDA s1 :
    Let(nbu_read_uint64(f, s1.cur), LAMBDA p :
    Let(nbu_seek_set(p.cur, ToLong(AddU64(p.v, 20))), LAMBDA s2 :
    Let(nbu_read_file_time(f, s2.cur), LAMBDA ft :
    Let(nbu_read_utf16(f, ft.cur), LAMBDA imei :
    Let(nbu_read_utf16(f, imei.cur), LAMBDA model :
    Let(nbu_read_utf16(f, model.cur), LAMBDA name :
    Let(nbu_read_utf16(f, name.cur), LAMBDA firmware :
    Let(nbu_read_utf16(f, firmware.cur), LAMBDA language :
    Let(nbu_seek_cur(language.cur, 20), LAMBDA s3 :
    Let([EmptyCtx EXCEPT !.backup_time = ft.v], LAMBDA c1 :
    Let([c1 EXCEPT !.phone_imei = imei.v], LAMBDA c2 :
    Let([c2 EXCEPT !.phone_model = model.v], LAMBDA c3 :
    Let([c3 EXCEPT !.phone_name = name.v], LAMBDA c4 :
    Let([c4 EXCEPT !.phone_firmware = firmware.v], LAMBDA c5 :
    Let([c5 EXCEPT !.phone_language = language.v], LAMBDA c6 :
        IF ~p.ok THEN [ok |-> FALSE, cur |-> p.cur, ctx |-> EmptyCtx]
        ELSE IF ~s2.ok THEN [ok |-> FALSE, cur |-> s2.cur, ctx |-> EmptyCtx]
        ELSE IF ~ft.ok THEN [ok |-> FALSE, cur |-> ft.cur, ctx |-> EmptyCtx]
        ELSE IF ~imei.ok THEN [ok |-> FALSE, cur |-> imei.cur, ctx |-> c1]
        ELSE IF ~model.ok THEN [ok |-> FALSE, cur |-> model.cur, ctx |-> c2]
        ELSE IF ~name.ok THEN [ok |-> FALSE, cur |-> name.cur, ctx |-> c3]
        ELSE IF ~firmware.ok
             THEN [ok |-> FALSE, cur |-> firmware.cur, ctx |-> c4]
        ELSE IF ~language.ok
             THEN [ok |-> FALSE, cur |-> language.cur, ctx |-> c5]
        ELSE [ok |-> TRUE, cur |-> s3.cur, ctx |-> c6]))))))))))))))))

\* A dispatcher that seeks to the declared section position before the
\* handler and restores the cursor that followed the entry after it.
nbu_read_sections_step_seeking(f, cur, ctx) ==
    LET none(c) == [ok |-> FALSE, cur |-> c, ctx |-> ctx, h |-> "none",
                    entry |-> FALSE, after |-> c, hcur |-> -1,
                    spos |-> -1]
    IN
    Let(nbu_read(f, cur, NBU_GUID_LEN), LAMBDA guid :
    Let(nbu_read_uint64(f, guid.cur), LAMBDA pos :
    Let(nbu_seek_cur(pos.cur, 8), LAMBDA sk :
    Let(nbu_seek_set(sk.cur, ToLong(pos.v)), LAMBDA to :
    Let(nbu_read_section(f, to.cur, ctx, guid.v, pos.v), LAMBDA r :
        IF ~guid.ok THEN none(guid.cur)
        ELSE IF ~pos.ok THEN none(pos.cur)
        ELSE [ok |-> r.ok, cur |-> sk.cur, ctx |-> r.ctx, h |-> r.h,
              entry |-> TRUE, after |-> sk.cur,
              hcur |-> IF r.h = "none" THEN -1 ELSE to.cur,
              spos |-> ToLong(pos.v)])))))

\* One iteration of the loop of nbu_read_sections at cursor cur: the entry
\* (identifier, position, skipped length), then the handler, invoked where
\* the entry ends.  after is the cursor following the entry, hcur the cursor
\* at which the handler was invoked (-1: no handler invoked).
nbu_read_sections_step(f, cur, ctx) ==
    LET none(c) == [ok |-> FALSE, cur |-> c, ctx |-> ctx, h |-> "none",
                    entry |-> FALSE, after |-> c, hcur |-> -1,
                    spos |-> -1]
    IN
    Let(nbu_read(f, cur, NBU_GUID_LEN), LAMBDA guid :
    Let(nbu_read_uint64(f, guid.cur), LAMBDA pos :
    Let(nbu_seek_cur(pos.cur, 8), LAMBDA sk :
    Let(nbu_read_section(f, sk.cur, ctx, guid.v, pos.v), LAMBDA r :
        IF ~guid.ok THEN none(guid.cur)
        ELSE IF ~pos.ok THEN none(pos.cur)
        ELSE [ok |-> r.ok, cur |-> r.cur, ctx |-> r.ctx, h |-> r.h,
              entry |-> TRUE, after |-> sk.cur,
              hcur |-> IF r.h = "none" THEN -1 ELSE sk.cur,
              spos |-> ToLong(pos.v)]))))

\* -------------------------------------------------------------- file names

\* "calendar.ics"
NBU_CALENDAR_FILE == <<99, 97, 108, 101, 110, 100, 97, 114, 46, 105, 99, 115>>

\* "contacts.vcf"
NBU_CONTACTS_FILE == <<99, 111, 110, 116, 97, 99, 116, 115, 46, 118, 99, 102>>

\* "memos"
NBU_MEMOS_DIR == <<109, 101, 109, 111, 115>>

\* "messages"
NBU_MESSAGES_DIR == <<109, 101, 115, 115, 97, 103, 101, 115>>

\* '/' and '.'
Slash == 47

Dot == 46

\* printf("%d") of a positive int.
RECURSIVE Decimal(_)
Decimal(n) ==
    IF n < 10 THEN <<48 + n>> ELSE Decimal(n \div 10) \o <<48 + (n % 10)>>

\* snprintf(name, sizeof name, "%s/memo-%d.txt", NBU_MEMOS_DIR, i)
MemoName(i) ==
    NBU_MEMOS_DIR \o <<Slash, 109, 101, 109, 111, 45>> \o Decimal(i)
        \o <<Dot, 116, 120, 116>>

\* asprintf(&name, "%s/%s.vmg", path, base)
VmgName(path, base) == path \o <<Slash>> \o base \o <<Dot, 118, 109, 103>>

\* ------------------------------------------------------------ export engine

\* The destination tree: fs maps the name of every regular file to its
\* content, dirs is the set of subdirectories.

\* An item export that reads where the stream is.
nbu_export_item_to_fd_from_cursor(f, cur, item, malloc0) ==
    Let(nbu_read(f, cur, item.len), LAMBDA rd :
        IF item.len = 0 /\ malloc0 THEN [ok |-> FALSE, cur |-> cur, out |-> <<>>]
        ELSE IF ~rd.ok THEN [ok |-> FALSE, cur |-> rd.cur, out |-> <<>>]
        ELSE [ok |-> TRUE, cur |-> rd.cur, out |-> rd.v])

\* malloc0 tells whether malloc(0) returns NULL on this platform.  The bytes
\* of the item are read at its recorded position and written to the file.
nbu_export_item_to_fd(f, cur, item, malloc0) ==
    Let(nbu_seek_set(cur, item.pos), LAMBDA sk :
    Let(nbu_read(f, sk.cur, item.len), LAMBDA rd :
        IF item.len = 0 /\ malloc0 THEN [ok |-> FALSE, cur |-> cur, out |-> <<>>]
        ELSE IF ~sk.ok THEN [ok |-> FALSE, cur |-> sk.cur, out |-> <<>>]
        ELSE IF ~rd.ok THEN [ok |-> FALSE, cur |-> rd.cur, out |-> <<>>]
        ELSE [ok |-> TRUE, cur |-> rd.cur, out |-> rd.v]))

\* The item is read as len / 2 code units, converted, and strlen bytes of the
\* conversion are written.
nbu_export_utf16_item_to_fd(f, cur, item) ==
    Let(item.len \div 2, LAMBDA len :
    Let(nbu_seek_set(cur, item.pos), LAMBDA sk :
    Let(nbu_read_utf16_n(f, sk.cur, len), LAMBDA utf16 :
    Let(nbu_convert_utf16_to_utf8(utf16.v), LAMBDA utf8 :
        IF item.len % 2 # 0 THEN [ok |-> FALSE, cur |-> cur, out |-> <<>>]
        ELSE IF ~sk.ok THEN [ok |-> FALSE, cur |-> sk.cur, out |-> <<>>]
        ELSE IF ~utf16.ok THEN [ok |-> FALSE, cur |-> utf16.cur, out |-> <<>>]
        ELSE [ok |-> TRUE, cur |-> utf16.cur,
              out |-> SubSeq(utf8, 1, strlen(utf8))]))))

\* openat(O_WRONLY | O_CREAT | O_EXCL) fails on an existing name; otherwise
\* the file exists from here on, whatever becomes of the item.
nbu_export_utf16_item(f, cur, item, fs, path) ==
    Let(nbu_export_utf16_item_to_fd(f, cur, item), LAMBDA r :
        IF path \in DOMAIN fs THEN [ok |-> FALSE, cur |-> cur, fs |-> fs]
        ELSE [ok |-> r.ok, cur |-> r.cur, fs |-> (path :> r.out) @@ fs])

\* STAILQ_FOREACH of nbu_export_item_list from the k-th item: data is what
\* the file holds so far; the first failing item ends the loop.
RECURSIVE nbu_export_item_list_loop(_, _, _, _, _, _)
nbu_export_item_list_loop(f, cur, q, k, data, malloc0) ==
    IF k > Len(q) THEN [ok |-> TRUE, cur |-> cur, data |-> data]
    ELSE Let(nbu_export_item_to_fd(f, cur, q[k], malloc0), LAMBDA r :
             IF ~r.ok THEN [ok |-> FALSE, cur |-> r.cur, data |-> data]
             ELSE nbu_export_item_list_loop(f, r.cur, q, k + 1,
                                            data \o r.out, malloc0))

\* An export that opens the file without O_EXCL.
nbu_export_item_list_overwriting(f, cur, list, fs, path, malloc0) ==
    Let(nbu_export_item_list_loop(f, cur, list.q, 1, <<>>, malloc0), LAMBDA r :
        IF ~list.alloc \/ list.q = <<>>
        THEN [ok |-> TRUE, cur |-> cur, fs |-> fs]
        ELSE [ok |-> r.ok, cur |-> r.cur, fs |-> (path :> r.data) @@ fs])

nbu_export_item_list(f, cur, list, fs, path, malloc0) ==
    Let(nbu_export_item_list_loop(f, cur, list.q, 1, <<>>, malloc0), LAMBDA r :
        IF ~list.alloc \/ list.q = <<>>
        THEN [ok |-> TRUE, cur |-> cur, fs |-> fs]
        ELSE IF path \in DOMAIN fs THEN [ok |-> FALSE, cur |-> cur, fs |-> fs]
        ELSE [ok |-> r.ok, cur |-> r.cur, fs |-> (path :> r.data) @@ fs])

\* A folder loop that writes each item before the earlier ones.
RECURSIVE nbu_export_message_folder_loop_prepending(_, _, _, _, _)
nbu_export_message_folder_loop_prepending(f, cur, q, k, data) ==
    IF k > Len(q) THEN [ok |-> TRUE, cur |-> cur, data |-> data]
    ELSE Let(nbu_export_utf16_item_to_fd(f, cur, q[k]), LAMBDA r :
             IF ~r.ok THEN [ok |-> FALSE, cur |-> r.cur, data |-> data]
             ELSE nbu_export_message_folder_loop_prepending(f, r.cur, q, k + 1,
                                                            r.out \o data))

\* STAILQ_FOREACH of nbu_export_message_folder from the k-th item.
RECURSIVE nbu_export_message_folder_loop(_, _, _, _, _)
nbu_export_message_folder_loop(f, cur, q, k, data) ==
    IF k > Len(q) THEN [ok |-> TRUE, cur |-> cur, data |-> data]
    ELSE Let(nbu_export_utf16_item_to_fd(f, cur, q[k]), LAMBDA r :
             IF ~r.ok THEN [ok |-> FALSE, cur |-> r.cur, data |-> data]
             ELSE nbu_export_message_folder_loop(f, r.cur, q, k + 1,
                                                 data \o r.out))

\* base[0] == '\0' || strchr(base, '/') != NULL || strcmp(base, ".") == 0 ||
\* strcmp(base, "..") == 0, for base without its terminator.
InvalidFolderName(base) ==
    \/ base = <<>>
    \/ \E k \in 1..Len(base) : base[k] = Slash
    \/ base = <<Dot>>
    \/ base = <<Dot, Dot>>

nbu_export_message_folder(f, cur, folder, fs, path) ==
    Let(nbu_convert_utf16_to_utf8(folder.name), LAMBDA utf8 :
    Let(SubSeq(utf8, 1, strlen(utf8)), LAMBDA base :
    Let(VmgName(path, base), LAMBDA name :
    Let(nbu_export_message_folder_loop(f, cur, folder.items, 1, <<>>),
        LAMBDA r :
        IF InvalidFolderName(base) THEN [ok |-> FALSE, cur |-> cur, fs |-> fs]
        ELSE IF name \in DOMAIN fs THEN [ok |-> FALSE, cur |-> cur, fs |-> fs]
        ELSE [ok |-> r.ok, cur |-> r.cur, fs |-> (name :> r.data) @@ fs]))))

nbu_export_calendar(f, cur, ctx, fs, malloc0) ==
    nbu_export_item_list(f, cur, ctx.calendar, fs, NBU_CALENDAR_FILE, malloc0)

nbu_export_contacts(f, cur, ctx, fs, malloc0) ==
    nbu_export_item_list(f, cur, ctx.contacts, fs, NBU_CONTACTS_FILE, malloc0)

\* A memo loop that numbers the files by the memos exported so far.
RECURSIVE nbu_export_memos_loop_renumbering(_, _, _, _, _, _)
nbu_export_memos_loop_renumbering(f, cur, q, i, fs, ret) ==
    IF q = <<>> THEN [ok |-> ret, cur |-> cur, fs |-> fs]
    ELSE Let(nbu_export_utf16_item(f, cur, Head(q), fs, MemoName(i)),
             LAMBDA r :
             nbu_export_memos_loop_renumbering(f, r.cur, Tail(q),
                 IF r.ok THEN i + 1 ELSE i, r.fs, ret /\ r.ok))

\* STAILQ_FOREACH of nbu_export_memos: i numbers the memo, ret accumulates.
RECURSIVE nbu_export_memos_loop(_, _, _, _, _, _)
nbu_export_memos_loop(f, cur, q, i, fs, ret) ==
    IF i > Len(q) THEN [ok |-> ret, cur |-> cur, fs |-> fs]
    ELSE Let(nbu_export_utf16_item(f, cur, q[i], fs, MemoName(i)), LAMBDA r :
             nbu_export_memos_loop(f, r.cur, q, i + 1, r.fs, ret /\ r.ok))

\* A memos export that makes the directory before it looks at the list.
nbu_export_memos_mkdir_first(f, cur, ctx, fs, dirs) ==
    Let(nbu_export_memos_loop(f, cur, ctx.memos.q, 1, fs, TRUE), LAMBDA r :
        [ok |-> r.ok, cur |-> r.cur, fs |-> r.fs,
         dirs |-> dirs \cup {NBU_MEMOS_DIR}])

\* mkdirat tolerates an existing directory.
nbu_export_memos(f, cur, ctx, fs, dirs) ==
    Let(nbu_export_memos_loop(f, cur, ctx.memos.q, 1, fs, TRUE), LAMBDA r :
        IF ~ctx.memos.alloc \/ ctx.memos.q = <<>>
        THEN [ok |-> TRUE, cur |-> cur, fs |-> fs, dirs |-> dirs]
        ELSE [ok |-> r.ok, cur |-> r.cur, fs |-> r.fs,
              dirs |-> dirs \cup {NBU_MEMOS_DIR}])

\* A folder loop that returns at the first folder that fails.
RECURSIVE nbu_export_messages_loop_stopping(_, _, _, _, _, _)
nbu_export_messages_loop_stopping(f, cur, q, k, fs, ret) ==
    IF k > Len(q) THEN [ok |-> ret, cur |-> cur, fs |-> fs]
    ELSE Let(nbu_export_message_folder(f, cur, q[k], fs, NBU_MESSAGES_DIR),
             LAMBDA r :
             IF ~r.ok THEN [ok |-> FALSE, cur |-> r.cur, fs |-> r.fs]
             ELSE nbu_export_messages_loop_stopping(f, r.cur, q, k + 1, r.fs,
                                                    ret))

\* STAILQ_FOREACH of nbu_export_messages: ret accumulates.
RECURSIVE nbu_export_messages_loop(_, _, _, _, _, _)
nbu_export_messages_loop(f, cur, q, k, fs, ret) ==
    IF k > Len(q) THEN [ok |-> ret, cur |-> cur, fs |-> fs]
    ELSE Let(nbu_export_message_folder(f, cur, q[k], fs, NBU_MESSAGES_DIR),
             LAMBDA r :
             nbu_export_messages_loop(f, r.cur, q, k + 1, r.fs, ret /\ r.ok))

\* A messages export that also walks the MMS folder list.
nbu_export_messages_and_mmses(f, cur, ctx, fs, dirs) ==
    Let(ctx.messages.q \o ctx.mmses.q, LAMBDA q :
    Let(nbu_export_messages_loop(f, cur, q, 1, fs, TRUE), LAMBDA r :
        IF q = <<>>
        THEN [ok |-> TRUE, cur |-> cur, fs |-> fs, dirs |-> dirs]
        ELSE [ok |-> r.ok, cur |-> r.cur, fs |-> r.fs,
              dirs |-> dirs \cup {NBU_MESSAGES_DIR}]))

nbu_export_messages(f, cur, ctx, fs, dirs) ==
    Let(nbu_export_messages_loop(f, cur, ctx.messages.q, 1, fs, TRUE),
        LAMBDA r :
        IF ~ctx.messages.alloc \/ ctx.messages.q = <<>>
        THEN [ok |-> TRUE, cur |-> cur, fs |-> fs, dirs |-> dirs]
        ELSE [ok |-> r.ok, cur |-> r.cur, fs |-> r.fs,
              dirs |-> dirs \cup {NBU_MESSAGES_DIR}])

\* ------------------------------------------------------------ backup files

\* The files the model parses are laid out as the format has them: header,
\* info block, section table with the counts and folder tables that follow
\* each entry, then the records the entries point to.  A shape gives the
\* payloads of the items of every section and folder, the names of the
\* folders, the first validation word of the vCard records and the number of
\* bytes cut off the end of the file.

Kinds ==
    {"calendar", "contacts", "bookmarks", "messages", "mms", "memos",
     "groups", "advanced_settings", "unknown"}

FolderKinds == {"bookmarks", "messages", "mms", "groups", "advanced_settings"}

\* The identifier of a kind; the unknown one differs from the calendar's in
\* its last byte only.
GuidOf(kind) ==
    IF kind = "unknown"
    THEN [nbu_sections[1].guid EXCEPT ![NBU_GUID_LEN] = 35]
    ELSE (CHOOSE e \in {nbu_sections[k] : k \in 1..Len(nbu_sections)} :
              e.read = kind).guid

\* A length-prefixed UTF-16LE string.
Utf16String(units) ==
    LE(Len(units), 2) \o Flatten([k \in 1..Len(units) |-> LE(units[k], 2)])

VcardRecord(t1, payload) ==
    LE(t1, 4) \o LE(0, 4) \o LE(Len(payload), 4) \o payload

VcardBlock(sh) ==
    LE(Len(sh.items), 4)
        \o Flatten([k \in 1..Len(sh.items) |-> VcardRecord(sh.t1, sh.items[k])])

MemoBlock(sh) ==
    Flatten([k \in 1..Len(sh.items) |->
        Zeros(4) \o LE(Len(sh.items[k]) \div 2, 2)
            \o SubSeq(sh.items[k], 1, 2 * (Len(sh.items[k]) \div 2))])

MessageRecord(payload) == Zeros(8) \o LE(Len(payload), 4) \o payload

\* One sub-record holding the string "M" before the body.
MmsRecord(payload) ==
    Zeros(8) \o <<1>> \o Zeros(8) \o Utf16String(<<77>>) \o Zeros(20)
        \o LE(Len(payload), 4) \o payload

\* The name of a folder, under the count the shape declares for it (the
\* number of its code units when the shape declares none).
FolderName(name, sh) ==
    IF sh.count < 0 THEN Utf16String(name)
    ELSE LE(sh.count, 2) \o SubSeq(Utf16String(name), 3, 2 + 2 * Len(name))

FolderBlock(kind, name, sh) ==
    Zeros(4) \o FolderName(name, sh) \o
    CASE kind = "bookmarks" -> VcardBlock(sh)
      [] kind = "messages" ->
             LE(Len(sh.items), 4)
                 \o Flatten([k \in 1..Len(sh.items) |->
                                MessageRecord(sh.items[k])])
      [] kind = "mms" ->
             LE(Len(sh.items), 4)
                 \o Flatten([k \in 1..Len(sh.items) |-> MmsRecord(sh.items[k])])
      [] OTHER -> LE(0, 4)

\* The blocks of the folders of a section, in order (none for the kinds
\* whose folders are not read or that have no folders).
FolderBlocks(kind, sh) ==
    IF kind \in FolderKinds \ {"advanced_settings"}
    THEN [j \in 1..Len(sh.names) |-> FolderBlock(kind, sh.names[j], sh)]
    ELSE <<>>

RECURSIVE SumLen(_, _)
SumLen(ss, k) == IF k = 0 THEN 0 ELSE Len(ss[k]) + SumLen(ss, k - 1)

\* The records of a section, placed at dataStart.
SectionData(kind, sh) ==
    CASE kind \in {"calendar", "contacts"} -> VcardBlock(sh)
      [] kind = "memos" -> MemoBlock(sh)
      [] kind \in FolderKinds -> Flatten(FolderBlocks(kind, sh))
      [] OTHER -> <<>>

\* What follows the 32 bytes of the entry in the section table.
SectionInline(kind, sh, dataStart) ==
    CASE kind \in {"calendar", "contacts"} ->
             LE(Len(sh.items), 4) \o LE(sh.nfolders, 4)
      [] kind = "memos" -> LE(Len(sh.items), 4) \o Zeros(4)
      [] kind \in FolderKinds ->
             LE(Len(sh.items) * Len(sh.names), 4) \o LE(Len(sh.names), 4)
                 \o Flatten([j \in 1..Len(sh.names) |->
                        LE(j, 4) \o LE(dataStart
                            + SumLen(FolderBlocks(kind, sh),
                                     Min(j - 1, Len(FolderBlocks(kind, sh)))),
                            8)])
      [] OTHER -> <<>>

\* The section position of the entry: the vCard records start 44 bytes and
\* the memo records 48 bytes after it.
SectionPos(kind, dataStart) ==
    CASE kind \in {"calendar", "contacts"} -> dataStart - 44
      [] kind = "memos" -> dataStart - 48
      [] OTHER -> dataStart

SectionEntry(kind, sh, dataStart) ==
    GuidOf(kind) \o LE(SectionPos(kind, dataStart), 8) \o LE(0, 8)
        \o SectionInline(kind, sh, dataStart)

\* Offset 20 points at the info block, whose fields start 20 bytes later.
FileHeader ==
    Zeros(20) \o LE(8, 8) \o LE(30900000, 4) \o LE(1000, 4)
        \o Utf16String(<<51, 53>>) \o Utf16String(<<78, 57, 53>>)
        \o Utf16String(<<>>) \o Utf16String(<<86, 49>>)
        \o Utf16String(<<101, 110>>) \o Zeros(20)

BuildFile(secs, sh) ==
    Let(Len(secs), LAMBDA n :
    Let([k \in 1..n |-> SectionData(secs[k], sh)], LAMBDA data :
    Let([k \in 1..n |-> SectionEntry(secs[k], sh, 0)], LAMBDA inl :
    Let(Len(FileHeader) + 4 + SumLen(inl, n), LAMBDA tableEnd :
    Let([k \in 1..n |->
                     SectionEntry(secs[k], sh, tableEnd + SumLen(data, k - 1))],
        LAMBDA table :
    Let(FileHeader \o LE(IF sh.nsec >= 0 THEN sh.nsec ELSE n, 4)
            \o Flatten(table) \o Flatten(data), LAMBDA all :
        SubSeq(all, 1, Len(all) - sh.cut)))))))

BaseShape ==
    [items |-> << <<65, 0, 66, 0>> >>, names |-> << <<65>> >>,
     t1 |-> 16, nfolders |-> 0, cut |-> 0, count |-> -1, nsec |-> -1]

\* A zero-length item before a non-empty one; folders ".." and "B".
ZeroLenShape ==
    [BaseShape EXCEPT !.items = << <<>>, <<66, 0>> >>,
                      !.names = << <<Dot, Dot>>, <<66>> >>]

\* The file ends inside the length field of the last record.
CutShape == [BaseShape EXCEPT !.cut = 6]

Shapes ==
    { BaseShape, ZeroLenShape,
      \* a zero code unit inside an item; folders "A", "" and "a/b"
      [BaseShape EXCEPT !.items = << <<65, 0, 0, 0, 66, 0>>, <<67, 0>> >>,
                        !.names = << <<65>>, <<>>, <<97, Slash, 98>> >>],
      \* a surrogate pair, a lone surrogate, two- and three-byte characters;
      \* folders ".", "A" and "A" again
      [BaseShape EXCEPT !.items = << <<61, 216, 0, 222>>, <<0, 216, 65, 0>>,
                                     <<233, 0, 172, 32>> >>,
                        !.names = << <<Dot>>, <<65>>, <<65>> >>],
      \* an item of odd length
      [BaseShape EXCEPT !.items = << <<65, 0, 66>> >>],
      \* the last item runs one byte past the end of the file
      [BaseShape EXCEPT !.items = << <<65, 0>>, <<66, 0, 67, 0>> >>,
                        !.cut = 1],
      CutShape,
      \* a first validation word other than 0x10
      [BaseShape EXCEPT !.items = << <<65, 0>>, <<66, 0>> >>, !.t1 = 17],
      \* a folder name declared with 0xFFFF code units
      [BaseShape EXCEPT !.count = 65535],
      \* a section count of 0x7FFFFFFF before the entries there are
      [BaseShape EXCEPT !.nsec = 2147483647],
      \* a flat section that declares a folder
      [BaseShape EXCEPT !.nfolders = 1],
      \* no item and no folder; no item in one folder
      [BaseShape EXCEPT !.items = <<>>, !.names = <<>>],
      [BaseShape EXCEPT !.items = <<>>] }

SectionLists(n) == UNION {[1..k -> Kinds] : k \in 0..n}

\* The destination tree before the first export: empty, or holding files
\* ("X") under names the export uses.
PreTrees ==
    { [fs |-> <<>>, dirs |-> {}],
      [fs |-> (NBU_CALENDAR_FILE :> <<88>>) @@ (MemoName(1) :> <<88>>)
                  @@ (VmgName(NBU_MESSAGES_DIR, <<65>>) :> <<88>>),
       dirs |-> {NBU_MEMOS_DIR, NBU_MESSAGES_DIR}],
      [fs |-> (NBU_CONTACTS_FILE :> <<88>>) @@ (MemoName(2) :> <<88>>)
                  @@ (VmgName(NBU_MESSAGES_DIR, <<66>>) :> <<88>>),
       dirs |-> {NBU_MEMOS_DIR, NBU_MESSAGES_DIR}] }

\* Every list of sections in three shapes; every shape on at most one
\* section.
Inputs ==
    {[secs |-> s, sh |-> sh] :
        s \in SectionLists(MaxSections),
        sh \in {BaseShape, ZeroLenShape, CutShape}}
    \cup {[secs |-> s, sh |-> sh] : s \in SectionLists(1), sh \in Shapes}

\* ------------------------------------------------------------ state machine

VARIABLES
    file,      \* the bytes of the backup file
    cur,       \* the position of the stream ctx->fp
    ctx,       \* struct nbu_ctx
    pc,        \* where main is
    nsections, \* the section count read by nbu_read_sections
    sec_i,     \* the loop counter of nbu_read_sections
    last,      \* the last iteration of that loop, as nbu_read_sections_step
    fs,        \* the regular files of the destination tree
    dirs,      \* its subdirectories
    fs0,       \* the files at the start of the running nbu_export call
    made,      \* the names of the files created by nbu_export calls
    ret,       \* the local ret of the running nbu_export call
    attempts,  \* the category exports of the running call, with their results
    results,   \* the values returned by the nbu_export calls made
    call,      \* the running nbu_export call: the stream position and the
               \* subdirectories at its entry, the malloc(0) that returned NULL
    calls,     \* the nbu_export calls that returned: entry, tree and result
    open_ret,  \* the value nbu_open returned (1: it has not returned)
    fp,        \* ctx->fp: "null", "open" or "closed"
    allocs,    \* the item lists and folder lists allocated for the context
    frees      \* the item lists and folder lists freed

vars ==
    <<file, cur, ctx, pc, nsections, sec_i, last, fs, dirs, fs0, made, ret,
      attempts, results, call, calls, open_ret, fp, allocs, frees>>

NoCall == [cur0 |-> 0, dirs0 |-> {}, env |-> <<>>]

NoEntry ==
    [entry |-> FALSE, h |-> "none", ok |-> TRUE, start |-> 0, after |-> 0,
     hcur |-> -1, spos |-> -1, before |-> EmptyCtx]

Init ==
    \E in \in Inputs, pre \in PreTrees :
        /\ file = BuildFile(in.secs, in.sh)
        /\ cur = 0
        /\ ctx = EmptyCtx
        /\ pc = "start"
        /\ nsections = 0
        /\ sec_i = 0
        /\ last = NoEntry
        /\ fs = pre.fs
        /\ dirs = pre.dirs
        /\ fs0 = pre.fs
        /\ made = {}
        /\ ret = TRUE
        /\ attempts = <<>>
        /\ results = <<>>
        /\ call = NoCall
        /\ calls = <<>>
        /\ open_ret = 1
        /\ fp = "null"
        /\ allocs = 0
        /\ frees = 0

exportVars == <<fs, dirs, fs0, made, ret, attempts, results, call, calls>>

heapVars == <<fp, allocs, frees>>

\* The member of struct nbu_ctx that the handler h assigns a new list to.
ListOf(h) ==
    CASE h \in {"calendar", "contacts", "bookmarks", "memos", "messages"} -> h
      [] h = "mms" -> "mmses"
      [] OTHER -> "none"

\* The lists nbu_close frees: the members that are not NULL.
ListsHeld(c) ==
    {m \in {"bookmarks", "messages", "mmses", "calendar", "contacts", "memos"} :
        c[m].alloc}

\* nbu_open from fopen to the seek that precedes the section table; fopen
\* may fail, and nothing is read then.
NbuOpen ==
    /\ pc = "start"
    /\ \/ \E r \in {nbu_open_header(file)} :
              /\ cur' = r.cur
              /\ ctx' = r.ctx
              /\ pc' = IF r.ok THEN "read_sections" ELSE "open_failed"
              /\ open_ret' = IF r.ok THEN open_ret ELSE -1
              /\ fp' = "open"
       \/ /\ pc' = "open_failed"
          /\ open_ret' = -1
          /\ UNCHANGED <<cur, ctx, fp>>
    /\ UNCHANGED <<file, nsections, sec_i, last, allocs, frees>>
    /\ UNCHANGED exportVars

\* nbu_read_sections: the section count.
NbuReadSections ==
    /\ pc = "read_sections"
    /\ LET n == nbu_read_uint32(file, cur)
       IN  /\ cur' = n.cur
           /\ nsections' = n.v
           /\ pc' = IF n.ok THEN "section_loop" ELSE "open_failed"
           /\ open_ret' = IF n.ok THEN open_ret ELSE -1
    /\ sec_i' = 0
    /\ UNCHANGED <<file, ctx, last>>
    /\ UNCHANGED exportVars
    /\ UNCHANGED heapVars

\* An iteration that reads no entry and leaves the loop counter as it is.
NbuReadSectionEntry_idle ==
    /\ pc = "section_loop"
    /\ sec_i < nsections
    /\ last' = [NoEntry EXCEPT !.start = cur]
    /\ UNCHANGED <<file, cur, ctx, pc, nsections, sec_i, open_ret>>
    /\ UNCHANGED exportVars
    /\ UNCHANGED heapVars

\* One iteration of the loop of nbu_read_sections.  A handler of a list
\* section assigns a new list to its member of the context, whatever the
\* member held; the list is freed by the handlers that reset the member to
\* NULL on error.
NbuReadSectionEntry ==
    /\ pc = "section_loop"
    /\ sec_i < nsections
    /\ \E r \in {nbu_read_sections_step(file, cur, ctx)} :
           /\ cur' = r.cur
           /\ ctx' = r.ctx
           /\ last' = [entry |-> r.entry, h |-> r.h, ok |-> r.ok,
                        start |-> cur, after |-> r.after, hcur |-> r.hcur,
                        spos |-> r.spos, before |-> ctx]
           /\ pc' = IF r.ok THEN "section_loop" ELSE "open_failed"
           /\ open_ret' = IF r.ok THEN open_ret ELSE -1
           /\ allocs' = IF ListOf(r.h) # "none" THEN allocs + 1 ELSE allocs
           /\ frees' = IF ListOf(r.h) # "none" /\ ~r.ctx[ListOf(r.h)].alloc
                        THEN frees + 1 ELSE frees
    /\ sec_i' = sec_i + 1
    /\ UNCHANGED <<file, nsections, fp>>
    /\ UNCHANGED exportVars

\* The loop ends; nbu_open returns 0.
NbuOpenReturn ==
    /\ pc = "section_loop"
    /\ sec_i >= nsections
    /\ pc' = "opened"
    /\ open_ret' = 0
    /\ UNCHANGED <<file, cur, ctx, nsections, sec_i, last>>
    /\ UNCHANGED exportVars
    /\ UNCHANGED heapVars

\* malloc(0) returned NULL in an export of the list: m is the outcome drawn,
\* which matters only to a list that holds an item of length 0.
MallocFailed(list, m) ==
    m /\ list.alloc /\ \E k \in 1..Len(list.q) : list.q[k].len = 0

\* nbu_export: mkdir and open of the destination directory, which is the
\* one of the call before or, after a call that was given an empty
\* directory, a new empty one.
NbuExport ==
    /\ pc = "opened"
    /\ Len(results) < MaxExports
    /\ pc' = "export_calendar"
    /\ ret' = TRUE
    /\ attempts' = <<>>
    /\ \E fresh \in {f \in BOOLEAN : f => (results # <<>> /\ fs0 = <<>>
                                             /\ call.dirs0 = {})} :
           /\ fs' = IF fresh THEN <<>> ELSE fs
           /\ dirs' = IF fresh THEN {} ELSE dirs
           /\ made' = IF fresh THEN {} ELSE made
    /\ fs0' = fs'
    /\ call' = [cur0 |-> cur, dirs0 |-> dirs', env |-> <<>>]
    /\ UNCHANGED <<file, cur, ctx, nsections, sec_i, last, results, calls,
                   open_ret>>
    /\ UNCHANGED heapVars

\* A category export whose result replaces ret instead of accumulating.
AttemptLastWins(name, r, dirs2) ==
    /\ cur' = r.cur
    /\ fs' = r.fs
    /\ dirs' = dirs2
    /\ made' = made \cup (DOMAIN r.fs \ DOMAIN fs)
    /\ ret' = r.ok
    /\ attempts' = Append(attempts, [name |-> name, ok |-> r.ok])
    /\ UNCHANGED <<file, ctx, nsections, sec_i, last, fs0, results, calls,
                   open_ret>>
    /\ UNCHANGED heapVars

\* The effect of one category export r on the state of the running call.
Attempt(name, r, dirs2) ==
    /\ cur' = r.cur
    /\ fs' = r.fs
    /\ dirs' = dirs2
    /\ made' = made \cup (DOMAIN r.fs \ DOMAIN fs)
    /\ ret' = (ret /\ r.ok)
    /\ attempts' = Append(attempts, [name |-> name, ok |-> r.ok])
    /\ UNCHANGED <<file, ctx, nsections, sec_i, last, fs0, results, calls,
                   open_ret>>
    /\ UNCHANGED heapVars

NbuExportCalendar ==
    /\ pc = "export_calendar"
    /\ \E malloc0 \in BOOLEAN :
           /\ Attempt("calendar",
                      nbu_export_calendar(file, cur, ctx, fs, malloc0), dirs)
           /\ call' = [call EXCEPT
                          !.env = Append(@, MallocFailed(ctx.calendar, malloc0))]
    /\ pc' = "export_contacts"

NbuExportContacts ==
    /\ pc = "export_contacts"
    /\ \E malloc0 \in BOOLEAN :
           /\ Attempt("contacts",
                      nbu_export_contacts(file, cur, ctx, fs, malloc0), dirs)
           /\ call' = [call EXCEPT
                          !.env = Append(@, MallocFailed(ctx.contacts, malloc0))]
    /\ pc' = "export_memos"

NbuExportMemos ==
    /\ pc = "export_memos"
    /\ LET r == nbu_export_memos(file, cur, ctx, fs, dirs)
       IN  Attempt("memos", r, r.dirs)
    /\ UNCHANGED call
    /\ pc' = "export_messages"

NbuExportMessages ==
    /\ pc = "export_messages"
    /\ LET r == nbu_export_messages(file, cur, ctx, fs, dirs)
       IN  Attempt("messages", r, r.dirs)
    /\ UNCHANGED call
    /\ pc' = "export_return"

\* close(dfd); return ret.
NbuExportReturn ==
    /\ pc = "export_return"
    /\ results' = Append(results, ret)
    /\ calls' = Append(calls, [cur0 |-> call.cur0, dirs0 |-> call.dirs0,
                                fs0 |-> fs0, env |-> call.env,
                                fs |-> fs, dirs |-> dirs, ret |-> ret])
    /\ pc' = "opened"
    /\ UNCHANGED <<file, cur, ctx, nsections, sec_i, last, fs, dirs, fs0, made,
                   ret, attempts, call, open_ret>>
    /\ UNCHANGED heapVars

\* nbu_close, after a failed open or after the exports: fclose when ctx->fp
\* is not NULL, then the lists the context holds.
NbuClose ==
    /\ pc \in {"opened", "open_failed"}
    /\ pc' = "closed"
    /\ fp' = IF fp = "open" THEN "closed" ELSE fp
    /\ frees' = frees + Cardinality(ListsHeld(ctx))
    /\ UNCHANGED <<file, cur, ctx, nsections, sec_i, last, open_ret, allocs>>
    /\ UNCHANGED exportVars

Next ==
    \/ NbuOpen
    \/ NbuReadSections
    \/ NbuReadSectionEntry
    \/ NbuOpenReturn
    \/ NbuExport
    \/ NbuExportCalendar
    \/ NbuExportContacts
    \/ NbuExportMemos
    \/ NbuExportMessages
    \/ NbuExportReturn
    \/ NbuClose

Spec == Init /\ [][Next]_vars

\* nbu_open is one sequential call: once entered it keeps taking its steps.
OpenStep ==
    \/ NbuOpen
    \/ NbuReadSections
    \/ NbuReadSectionEntry
    \/ NbuOpenReturn

\* The open and the close alone: the exports come after nbu_open has
\* returned and have no part in whether it returns.
OpenNext ==
    \/ OpenStep
    \/ NbuClose

FairSpec == Init /\ [][OpenNext]_vars /\ WF_vars(OpenStep)

\* ------------------------------------------------------------------- claims

\* The identifier of the last section-table entry read, from the file.
LastGuid == SubSeq(file, last.start + 1, last.start + NBU_GUID_LEN)

LastGuidKnown ==
    \E k \in 1..Len(nbu_sections) : LastGuid = nbu_sections[k].guid

\* C1 as stated: for every section-table entry the dispatcher seeks to the
\* entry's declared section position before invoking the handler, and after
\* the handler returns the stream is back at the position that immediately
\* follows the entry, from where the next entry is read.
C1_DispatcherSeeksAndRestores ==
    (last.entry /\ last.hcur # -1) =>
        /\ last.hcur = last.spos
        /\ (pc = "section_loop" => cur = last.after)

\* C1 as amended: the handler is invoked with the stream immediately after
\* the 32 bytes of the entry, not at the declared section position, and the
\* dispatcher restores nothing: the next entry is read where the handler
\* left the stream, which after a successful handler is 8 bytes past the
\* entry for calendar, contacts and memos and 8 + 12 * folder count bytes
\* past it for the other kinds.
C1_HandlerRunsAfterEntry ==
    [][NbuReadSectionEntry =>
        /\ last'.start = cur
        /\ (last'.entry /\ last'.hcur # -1) =>
              /\ last'.after = last'.start + 32
              /\ last'.hcur = last'.after
              /\ last'.ok =>
                    cur' = last'.after + 8 +
                        (IF last'.h \in {"calendar", "contacts", "memos"}
                         THEN 0
                         ELSE 12 * le32toh(SubSeq(file, last'.after + 5,
                                                  last'.after + 8)))]_vars

\* C1 witness: a memos entry was read where the calendar handler, which had
\* jumped to its records, left the stream; the memos handler was invoked
\* there and not at its declared section position.
C1_Witness ==
    /\ sec_i = 2
    /\ last.entry /\ last.ok /\ last.h = "memos"
    /\ last.spos # last.hcur
    /\ ctx.calendar.q # <<>>
    /\ ctx.memos.q # <<>>

\* C2: an entry whose identifier is none of the eight of the table fails the
\* open: no handler is invoked, no later entry is read, and the context is
\* what the header and the earlier entries made it.
C2_UnsupportedSectionFailsOpen ==
    (last.entry /\ ~LastGuidKnown) =>
        /\ pc \in {"open_failed", "closed"}
        /\ ~last.ok
        /\ last.hcur = -1
        /\ ctx = last.before
        /\ cur = last.after
        /\ results = <<>>

\* C2 witness: the unsupported entry follows one that populated the
\* calendar.
C2_Witness ==
    /\ last.entry /\ ~LastGuidKnown
    /\ pc = "open_failed"
    /\ sec_i = 2
    /\ ctx.calendar.q # <<>>

\* Every item list of a context: the three flat lists and the lists of the
\* folders of the three folder lists.
ItemLists(c) ==
    {c.calendar.q, c.contacts.q, c.memos.q}
    \cup {c.bookmarks.q[k].items : k \in 1..Len(c.bookmarks.q)}
    \cup {c.messages.q[k].items : k \in 1..Len(c.messages.q)}
    \cup {c.mmses.q[k].items : k \in 1..Len(c.mmses.q)}

\* C3 as stated: every item of every collection lies within the file,
\* 0 <= pos and pos + len <= S, the last item of a section included.
C3_ItemsWithinFile ==
    \A q \in ItemLists(ctx) : \A k \in 1..Len(q) :
        0 <= q[k].pos /\ q[k].pos + q[k].len <= Len(file)

\* C3 as amended: every item starts within the file, 0 <= pos <= S, and
\* pos + len <= S holds for every item that is followed by another item in
\* its list; the last item of a list may run past the end of the file.
C3_ItemsStartWithinFile ==
    \A q \in ItemLists(ctx) : \A k \in 1..Len(q) :
        /\ 0 <= q[k].pos /\ q[k].pos <= Len(file)
        /\ k < Len(q) => q[k].pos + q[k].len <= Len(file)

\* C3 witness: after a successful open the calendar holds two items, the
\* last of which runs past the end of the file.
C3_Witness ==
    /\ pc = "opened"
    /\ Len(ctx.calendar.q) = 2
    /\ ctx.calendar.q[2].pos + ctx.calendar.q[2].len > Len(file)
    /\ ctx.calendar.q[1].len > 0

\* --- what the export claims speak of, stated apart from the code's operators

\* The bytes and the UTF-16LE code units of an item's range of the file.
RawBytes(item) == SubSeq(file, item.pos + 1, item.pos + item.len)

ItemUnits(item) ==
    [k \in 1..(item.len \div 2) |->
        file[item.pos + 2 * k - 1] + (256 * file[item.pos + 2 * k])]

Readable(item) == item.pos + item.len <= Len(file)

\* The code units before the first zero unit.
RECURSIVE UpToZero(_)
UpToZero(units) ==
    IF units = <<>> \/ Head(units) = 0 THEN <<>>
    ELSE <<Head(units)>> \o UpToZero(Tail(units))

\* UTF-8 of one codepoint, by the standard's table.
Utf8OfCodepoint(cp) ==
    IF cp < 128 THEN <<cp>>
    ELSE IF cp < 2048 THEN <<192 + (cp \div 64), 128 + (cp % 64)>>
    ELSE IF cp < 65536
         THEN <<224 + (cp \div 4096), 128 + ((cp \div 64) % 64), 128 + (cp % 64)>>
    ELSE <<240 + (cp \div 262144), 128 + ((cp \div 4096) % 64),
           128 + ((cp \div 64) % 64), 128 + (cp % 64)>>

\* UTF-8 of a sequence of UTF-16 code units: a high surrogate followed by a
\* low one is one codepoint, any other surrogate is U+FFFD.
RECURSIVE Utf16ToUtf8(_)
Utf16ToUtf8(units) ==
    IF units = <<>> THEN <<>>
    ELSE LET u == Head(units)
             hi == u >= 55296 /\ u <= 56319
             lo == u >= 56320 /\ u <= 57343
             pair == hi /\ Len(units) >= 2
                        /\ units[2] >= 56320 /\ units[2] <= 57343
         IN  IF pair
             THEN Utf8OfCodepoint(65536 + (u - 55296) * 1024
                                        + (units[2] - 56320))
                      \o Utf16ToUtf8(Tail(Tail(units)))
             ELSE IF hi \/ lo
                  THEN <<239, 191, 189>> \o Utf16ToUtf8(Tail(units))
                  ELSE Utf8OfCodepoint(u) \o Utf16ToUtf8(Tail(units))

\* The UTF-8 name of a message folder, as a C string.
FolderBase(folder) == Utf16ToUtf8(UpToZero(folder.name))

\* Empty, containing '/', "." or "..".
BadName(base) ==
    \/ Len(base) = 0
    \/ Slash \in {base[k] : k \in 1..Len(base)}
    \/ base \in {<<Dot>>, <<Dot, Dot>>}

MessagesPrefix == NBU_MESSAGES_DIR \o <<Slash>>

VmgPath(folder) == VmgName(NBU_MESSAGES_DIR, FolderBase(folder))

HasPrefix(p, pre) == Len(p) >= Len(pre) /\ SubSeq(p, 1, Len(pre)) = pre

\* The number of category exports the running nbu_export call has made.
Attempted == Len(attempts)

AllOk(n) == \A k \in 1..n : attempts[k].ok

CategoryOrder == <<"calendar", "contacts", "memos", "messages">>

\* C4: once the directory is open the four category exports are attempted
\* once each, in the order calendar, contacts, memos, messages, whatever the
\* result of the earlier ones, and nbu_export returns failure exactly when
\* one of the four failed, the result being final only after all four.
C4_AllCategoriesAttempted ==
    LET n == CASE pc = "export_calendar" -> 0
               [] pc = "export_contacts" -> 1
               [] pc = "export_memos" -> 2
               [] pc = "export_messages" -> 3
               [] pc = "export_return" -> 4
               [] OTHER -> -1
    IN  /\ n >= 0 =>
              /\ Attempted = n
              /\ \A k \in 1..n : attempts[k].name = CategoryOrder[k]
              /\ ret <=> AllOk(n)
        /\ (pc \in {"opened", "closed"} /\ results # <<>>) =>
              /\ Attempted = 4
              /\ results[Len(results)] <=> AllOk(4)

\* C4 witness: the calendar export failed, the contacts export that
\* followed succeeded and wrote its file, and nbu_export returned failure.
C4_Witness ==
    /\ pc = "opened" /\ results = <<FALSE>>
    /\ ~attempts[1].ok /\ attempts[2].ok
    /\ NBU_CONTACTS_FILE \in made

\* C5: when a folder of the message list has a name that is empty, contains
\* '/' or is "." or "..", no file is created for it, every validly named
\* folder of the list still has its <name>.vmg, and the messages export and
\* nbu_export report failure.
C5_BadFolderNameIsolated ==
    LET q == ctx.messages.q
        bad == {k \in 1..Len(q) : BadName(FolderBase(q[k]))}
    IN  (bad # {} /\ (pc = "export_return" \/ (pc = "opened" /\ results # <<>>)))
        =>
        /\ ~attempts[4].ok
        /\ pc = "export_return" => ~ret
        /\ pc = "opened" => ~results[Len(results)]
        /\ \A k \in 1..Len(q) \ bad : VmgPath(q[k]) \in DOMAIN fs
        /\ \A p \in DOMAIN fs \ DOMAIN fs0 :
               HasPrefix(p, MessagesPrefix) =>
                   \E k \in 1..Len(q) \ bad : p = VmgPath(q[k])

\* C5 witness: the folder ".." came first and the folder "B" after it was
\* exported to messages/B.vmg by this call.
C5_Witness ==
    /\ pc = "export_return"
    /\ Len(ctx.messages.q) = 2
    /\ FolderBase(ctx.messages.q[1]) = <<Dot, Dot>>
    /\ VmgPath(ctx.messages.q[2]) \in made \ DOMAIN fs0
    /\ fs[VmgPath(ctx.messages.q[2])] # <<>>

\* The export call has made all four category exports.
ExportDone == pc = "export_return"

ValidFolders(q) == {k \in 1..Len(q) : ~BadName(FolderBase(q[k]))}

\* C6: a file that was in the destination tree when nbu_export was called
\* keeps its content; when calendar.ics, contacts.vcf, a memos/memo-<n>.txt
\* or a messages/<name>.vmg the export would write is already there, the
\* export of that category fails; and an export into a tree that holds a
\* file written by an earlier export of the same backup reports failure.
C6_ExistingFilesUntouched ==
    /\ \A p \in DOMAIN fs0 : p \in DOMAIN fs /\ fs[p] = fs0[p]
    /\ ExportDone =>
          /\ (ctx.calendar.q # <<>> /\ NBU_CALENDAR_FILE \in DOMAIN fs0)
                 => ~attempts[1].ok
          /\ (ctx.contacts.q # <<>> /\ NBU_CONTACTS_FILE \in DOMAIN fs0)
                 => ~attempts[2].ok
          /\ (\E k \in 1..Len(ctx.memos.q) : MemoName(k) \in DOMAIN fs0)
                 => ~attempts[3].ok
          /\ (\E k \in ValidFolders(ctx.messages.q) :
                  VmgPath(ctx.messages.q[k]) \in DOMAIN fs0)
                 => ~attempts[4].ok
          /\ (made \cap DOMAIN fs0 # {}) => ~ret

\* C6 witness: a second export into the tree of a first one that wrote
\* calendar.ics has made its four attempts and is about to return failure,
\* the file still holding what the first export wrote.
C6_Witness ==
    /\ ExportDone /\ Len(results) = 1 /\ ~ret
    /\ NBU_CALENDAR_FILE \in made \cap DOMAIN fs0
    /\ fs[NBU_CALENDAR_FILE] = <<65, 0, 66, 0>>

RECURSIVE ConcatRaw(_)
ConcatRaw(q) ==
    IF q = <<>> THEN <<>> ELSE RawBytes(Head(q)) \o ConcatRaw(Tail(q))

RawFileIsConcatenation(q, path) ==
    (/\ q # <<>>
     /\ path \notin DOMAIN fs0
     /\ \A k \in 1..Len(q) : Readable(q[k]))
    => (path \in DOMAIN fs /\ fs[path] = ConcatRaw(q))

\* C7: with a non-empty calendar (contacts) list, no calendar.ics
\* (contacts.vcf) before the call and every item's range inside the file,
\* the file after nbu_export is the concatenation in list order of the
\* items' source bytes.
C7_RawConcatenation ==
    ExportDone =>
        /\ RawFileIsConcatenation(ctx.calendar.q, NBU_CALENDAR_FILE)
        /\ RawFileIsConcatenation(ctx.contacts.q, NBU_CONTACTS_FILE)

\* The same for lists without an item of length zero.
C7_RawConcatenationOfNonEmptyItems ==
    ExportDone =>
        \A c \in {<<ctx.calendar.q, NBU_CALENDAR_FILE>>,
                  <<ctx.contacts.q, NBU_CONTACTS_FILE>>} :
            (\A k \in 1..Len(c[1]) : c[1][k].len > 0)
                => RawFileIsConcatenation(c[1], c[2])

\* A list whose first item has length zero was exported into a tree without
\* the file: the file is there and lacks the bytes of the second item.
C7_ZeroLengthItemSeen ==
    /\ ExportDone
    /\ Len(ctx.calendar.q) = 2 /\ ctx.calendar.q[1].len = 0
    /\ Readable(ctx.calendar.q[2])
    /\ NBU_CALENDAR_FILE \in made
    /\ fs[NBU_CALENDAR_FILE] = <<>>

\* The folder's file is this folder's: valid name, not there before the
\* call, no earlier folder of the list with the same name, every item of
\* even length and inside the file.
FolderExportable(q, k) ==
    /\ k \in ValidFolders(q)
    /\ VmgPath(q[k]) \notin DOMAIN fs0
    /\ \A j \in 1..(k - 1) : FolderBase(q[j]) # FolderBase(q[k])
    /\ \A i \in 1..Len(q[k].items) :
           q[k].items[i].len % 2 = 0 /\ Readable(q[k].items[i])

RECURSIVE ConcatAllUnits(_)
ConcatAllUnits(q) ==
    IF q = <<>> THEN <<>>
    ELSE Utf16ToUtf8(ItemUnits(Head(q))) \o ConcatAllUnits(Tail(q))

RECURSIVE ConcatUpToZero(_)
ConcatUpToZero(q) ==
    IF q = <<>> THEN <<>>
    ELSE Utf16ToUtf8(UpToZero(ItemUnits(Head(q)))) \o ConcatUpToZero(Tail(q))

\* C8 as stated: messages/<name>.vmg of a validly named folder holds, in
\* item order, the UTF-8 of all len/2 code units of every item, zero code
\* units included.
C8_AllUnitsTranscoded ==
    ExportDone =>
        \A k \in 1..Len(ctx.messages.q) :
            FolderExportable(ctx.messages.q, k) =>
                /\ VmgPath(ctx.messages.q[k]) \in DOMAIN fs
                /\ fs[VmgPath(ctx.messages.q[k])]
                       = ConcatAllUnits(ctx.messages.q[k].items)

\* C8 amended: messages/<name>.vmg of a validly named folder whose export
\* succeeds holds, in item order, the UTF-8 of each item's code units up to
\* but excluding the item's first zero code unit.
C8_UnitsUpToZeroTranscoded ==
    ExportDone =>
        \A k \in 1..Len(ctx.messages.q) :
            FolderExportable(ctx.messages.q, k) =>
                /\ VmgPath(ctx.messages.q[k]) \in DOMAIN fs
                /\ fs[VmgPath(ctx.messages.q[k])]
                       = ConcatUpToZero(ctx.messages.q[k].items)

\* C8 witness: folder "A" with the items "A\0B" and "C" was exported to a
\* new messages/A.vmg.
C8_Witness ==
    /\ ExportDone
    /\ Len(ctx.messages.q) >= 1
    /\ FolderExportable(ctx.messages.q, 1)
    /\ Len(ctx.messages.q[1].items) = 2
    /\ ItemUnits(ctx.messages.q[1].items[1]) = <<65, 0, 66>>
    /\ VmgPath(ctx.messages.q[1]) \in made

MemoExportable(q, k) == MemoName(k) \notin DOMAIN fs0 /\ Readable(q[k])

\* C9: with a non-empty memo list the k-th memo goes to memos/memo-<k>.txt
\* as the UTF-8 of its code units before the first zero code unit; a memo
\* that cannot be exported leaves the later memos their numbers and files,
\* and the memos export fails exactly when some memo could not be exported.
C9_MemosNumberedAndIsolated ==
    LET q == ctx.memos.q
    IN  (ExportDone /\ q # <<>>) =>
            /\ NBU_MEMOS_DIR \in dirs
            /\ \A k \in 1..Len(q) :
                   MemoExportable(q, k) =>
                       /\ MemoName(k) \in DOMAIN fs
                       /\ fs[MemoName(k)] = Utf16ToUtf8(UpToZero(ItemUnits(q[k])))
            /\ attempts[3].ok <=> \A k \in 1..Len(q) : MemoExportable(q, k)

\* C9 witness: memo-1.txt was in the way, and the second memo was still
\* written to memo-2.txt while the memos export failed.
C9_Witness ==
    /\ ExportDone
    /\ Len(ctx.memos.q) = 2
    /\ MemoName(1) \in DOMAIN fs0
    /\ MemoName(2) \in made
    /\ fs[MemoName(2)] = <<66>>
    /\ ~attempts[3].ok

FolderItems(folders) ==
    UNION {{folders[k].items[i] : i \in 1..Len(folders[k].items)} :
              k \in 1..Len(folders)}

Contains(s, t) ==
    \E i \in 0..(Len(s) - Len(t)) : SubSeq(s, i + 1, i + Len(t)) = t

PayloadInSomeFile(item) ==
    \E p \in DOMAIN fs :
        \/ Contains(fs[p], RawBytes(item))
        \/ (item.len % 2 = 0
               /\ Contains(fs[p], Utf16ToUtf8(UpToZero(ItemUnits(item)))))

\* C10 as stated: after a successful nbu_export every readable, non-empty
\* item of the bookmark folders and of the MMS folders has its payload in
\* some file of the destination tree.
C10_BookmarksAndMmsExported ==
    (ExportDone /\ ret) =>
        \A item \in FolderItems(ctx.bookmarks.q) \cup FolderItems(ctx.mmses.q) :
            (item.len > 0 /\ Readable(item)) => PayloadInSomeFile(item)

\* C10 amended: nbu_export creates files for the calendar, the contacts,
\* the memos and the message folders only; the bookmark and MMS lists
\* add no file.
C10_OnlyFourCategoriesExported ==
    made \subseteq
        (IF ctx.calendar.q # <<>> THEN {NBU_CALENDAR_FILE} ELSE {})
        \cup (IF ctx.contacts.q # <<>> THEN {NBU_CONTACTS_FILE} ELSE {})
        \cup {MemoName(k) : k \in 1..Len(ctx.memos.q)}
        \cup {VmgPath(ctx.messages.q[k]) : k \in ValidFolders(ctx.messages.q)}

\* C10 witness: a backup with an MMS item and a calendar was exported with
\* success and the tree holds calendar.ics only.
C10_Witness ==
    /\ ExportDone /\ ret
    /\ \E item \in FolderItems(ctx.mmses.q) : item.len > 0 /\ Readable(item)
    /\ made = {NBU_CALENDAR_FILE}
    /\ DOMAIN fs = {NBU_CALENDAR_FILE}

\* The result of the category export the step has just made.
LastAttemptOk == attempts'[Len(attempts')].ok

\* C11: the export of a category whose list is absent or empty creates no
\* file and no subdirectory and succeeds: no calendar.ics, no contacts.vcf,
\* no memos directory, no messages directory.
C11_EmptyListsCreateNothing ==
    [][/\ (NbuExportCalendar /\ ctx.calendar.q = <<>>)
              => (fs' = fs /\ dirs' = dirs /\ LastAttemptOk)
       /\ (NbuExportContacts /\ ctx.contacts.q = <<>>)
              => (fs' = fs /\ dirs' = dirs /\ LastAttemptOk)
       /\ (NbuExportMemos /\ ctx.memos.q = <<>>)
              => (fs' = fs /\ dirs' = dirs /\ LastAttemptOk)
       /\ (NbuExportMessages /\ ctx.messages.q = <<>>)
              => (fs' = fs /\ dirs' = dirs /\ LastAttemptOk)]_vars

\* C11 witness: a backup with an empty calendar list and an empty message
\* folder list, and without contacts and memos, was exported with success
\* into an empty tree, which is still empty.
C11_Witness ==
    /\ ExportDone /\ ret
    /\ ctx.calendar.alloc /\ ctx.calendar.q = <<>>
    /\ ~ctx.contacts.alloc /\ ~ctx.memos.alloc
    /\ fs0 = <<>> /\ fs = <<>> /\ dirs = {}

\* C12: when nbu_open has failed and main has called nbu_close, every list
\* allocated for the context has been freed and the stream, if it was
\* opened, is closed.
C12_FailedOpenReleasesAll ==
    (pc = "closed" /\ open_ret = -1) => (frees = allocs /\ fp # "open")

\* No list is freed twice and the stream is never left open.
C12_NoDoubleRelease ==
    /\ frees <= allocs
    /\ pc = "closed" => fp # "open"

\* The open failed in the second of two calendar sections, nbu_close has run
\* and the list of the first section was never freed.
C12_ListLeaked ==
    /\ pc = "closed" /\ open_ret = -1
    /\ last.h = "calendar" /\ last.before.calendar.alloc
    /\ allocs = 2 /\ frees = 1

\* The unit count under the cursor c and the n code units that follow it.
CountAt(c) == file[c + 1] + (256 * file[c + 2])

UnitsAt(c, n) ==
    [k \in 1..n |-> file[c + 2 * k + 1] + (256 * file[c + 2 * k + 2])]

\* C13 as stated: a length-prefixed string whose count is 0xFFFF fails
\* without any code unit being read, and one with a smaller count n yields
\* the n code units that follow and a zero terminator.
C13_CountFFFFReadsNothing ==
    pc = "start" =>
        \A c \in 0..(Len(file) - 2) :
            Let(nbu_read_utf16(file, c), LAMBDA r :
                IF CountAt(c) = 65535 THEN ~r.ok /\ r.cur = c + 2
                ELSE (c + 2 + 2 * CountAt(c) <= Len(file)) =>
                         /\ r.ok
                         /\ r.cur = c + 2 + 2 * CountAt(c)
                         /\ r.v = UnitsAt(c, CountAt(c)) \o <<0>>)

\* C13 amended: whatever the count n, 0xFFFF included, the string read is
\* the n code units that follow and a zero terminator when the file holds
\* them; otherwise the read fails at the end of the file, having consumed
\* the code units that were there.
C13_EveryCountIsRead ==
    pc = "start" =>
        \A c \in 0..(Len(file) - 2) :
            Let(nbu_read_utf16(file, c), LAMBDA r :
                IF c + 2 + 2 * CountAt(c) <= Len(file)
                THEN /\ r.ok
                     /\ r.cur = c + 2 + 2 * CountAt(c)
                     /\ r.v = UnitsAt(c, CountAt(c)) \o <<0>>
                ELSE ~r.ok /\ r.cur = Len(file))

\* C13 witness: the open failed in a folder whose name is declared with
\* 0xFFFF code units, the stream having been read to its end.
C13_Witness ==
    /\ pc = "open_failed" /\ last.entry /\ last.h = "messages"
    /\ cur = Len(file)
    /\ \E c \in 0..(Len(file) - 2) :
           /\ CountAt(c) = 65535
           /\ c + 2 < Len(file)
           /\ nbu_read_utf16(file, c).cur = Len(file)

\* The code units at the edges of the surrogate ranges, and those of the
\* memos and messages the context holds, which the export decodes.
EdgeUnits == {0, 65, 55295, 55296, 56319, 56320, 57343, 57344, 65535}

UnitsOfItems(q) ==
    UNION {{ItemUnits(q[k])[i] : i \in 1..(q[k].len \div 2)} :
              k \in {j \in 1..Len(q) : Readable(q[j]) /\ q[j].len % 2 = 0}}

DecodedUnits ==
    EdgeUnits \cup UnitsOfItems(ctx.memos.q)
        \cup UNION {UnitsOfItems(ctx.messages.q[k].items) :
                       k \in 1..Len(ctx.messages.q)}

IsHigh(u) == u >= 55296 /\ u <= 56319

IsLow(u) == u >= 56320 /\ u <= 57343

PairCodepoint(hi, lo) == 65536 + ((hi - 55296) * 1024) + (lo - 56320)

\* C14 as stated: a high surrogate followed by a low one gives a codepoint
\* of 0x10000 or more and 2 units; any other surrogate gives U+FFFD and 1
\* unit; any other unit gives itself and 1 unit.
C14_UnpairedSurrogateConsumesOne ==
    \A u1 \in DecodedUnits, u2 \in DecodedUnits :
        Let(utf16_decode(u1, u2), LAMBDA d :
            IF IsHigh(u1) /\ IsLow(u2)
            THEN d.cp = PairCodepoint(u1, u2) /\ d.cp >= 65536 /\ d.n = 2
            ELSE IF IsHigh(u1) \/ IsLow(u1)
                 THEN d.cp = 65533 /\ d.n = 1
                 ELSE d.cp = u1 /\ d.n = 1)

\* C14 amended: the same, except that a surrogate that forms no pair gives
\* U+FFFD and the return value 0.
C14_UnpairedSurrogateReturnsZero ==
    \A u1 \in DecodedUnits, u2 \in DecodedUnits :
        Let(utf16_decode(u1, u2), LAMBDA d :
            IF IsHigh(u1) /\ IsLow(u2)
            THEN d.cp = PairCodepoint(u1, u2) /\ d.cp >= 65536 /\ d.n = 2
            ELSE IF IsHigh(u1) \/ IsLow(u1)
                 THEN d.cp = 65533 /\ d.n = 0
                 ELSE d.cp = u1 /\ d.n = 1)

\* C14 witness: the second memo, a high surrogate followed by "A", was
\* exported as U+FFFD and "A", and the first, a surrogate pair, as four bytes.
C14_Witness ==
    /\ ExportDone
    /\ Len(ctx.memos.q) = 3
    /\ ItemUnits(ctx.memos.q[2]) = <<55296, 65>>
    /\ {MemoName(1), MemoName(2)} \subseteq made
    /\ fs[MemoName(2)] = <<239, 191, 189, 65>>
    /\ Len(fs[MemoName(1)]) = 4

\* The zero-terminated strings the export converts: the memos and messages
\* of the context, and, before the open, the strings of one or two edge
\* units.
StringsOfItems(q) ==
    {ItemUnits(q[k]) \o <<0>> :
        k \in {j \in 1..Len(q) : Readable(q[j]) /\ q[j].len % 2 = 0}}

EdgeStrings ==
    {<<u, 0>> : u \in EdgeUnits \ {0}}
        \cup {<<u, v, 0>> : u \in EdgeUnits \ {0}, v \in EdgeUnits \ {0}}

ConvertedStrings ==
    StringsOfItems(ctx.memos.q)
        \cup UNION {StringsOfItems(ctx.messages.q[k].items) :
                       k \in 1..Len(ctx.messages.q)}
        \cup (IF pc = "start" THEN EdgeStrings ELSE {})

\* C15: the size-only pass returns n; the fill pass into a buffer of n + 1
\* bytes returns n, leaves the n bytes of the encoding followed by the
\* terminator at index n and nothing beyond; every codepoint decoded is at
\* most 0x10FFFF and has an encoding of at least one byte.
C15_SizePassMatchesFillPass ==
    \A s \in ConvertedStrings :
        Let(utf16_convert_string_to_utf8(FALSE, 0, s), LAMBDA size :
        Let(utf16_convert_string_to_utf8(TRUE, size.n + 1, s), LAMBDA fill :
            /\ size.n = Len(Utf16ToUtf8(UpToZero(s)))
            /\ fill.n = size.n
            /\ Len(fill.buf) = size.n + 1
            /\ fill.buf[size.n + 1] = 0
            /\ SubSeq(fill.buf, 1, size.n) = Utf16ToUtf8(UpToZero(s))
            /\ \A i \in 1..(Len(s) - 1) :
                   /\ utf16_decode(s[i], s[i + 1]).cp <= 1114111
                   /\ Len(utf8_encode(utf16_decode(s[i], s[i + 1]).cp)) >= 1))

\* C15 witness: the first memo, a surrogate pair, needed 4 bytes in the
\* size-only pass and was exported as the 4 bytes of U+1F600.
C15_Witness ==
    /\ ExportDone
    /\ Len(ctx.memos.q) = 3
    /\ ItemUnits(ctx.memos.q[1]) = <<55357, 56832>>
    /\ utf16_convert_string_to_utf8(FALSE, 0, <<55357, 56832, 0>>).n = 4
    /\ MemoName(1) \in made
    /\ fs[MemoName(1)] = <<240, 159, 152, 128>>

\* The 32-bit little-endian word at offset c of the file (-1 past its end).
Word(c) ==
    IF c >= 0 /\ c + 4 <= Len(file)
    THEN le32toh(SubSeq(file, c + 1, c + 4)) ELSE -1

\* n records from offset s, each with a header of 12 bytes.
RECURSIVE RecordsTwelve(_, _)
RecordsTwelve(s, n) ==
    IF n <= 0 THEN <<>>
    ELSE <<[pos |-> s + 12, len |-> Word(s + 8)]>>
             \o RecordsTwelve(s + 12 + Word(s + 8), n - 1)

\* n records from offset s, each with a header of 12 bytes when its first
\* word is 0x10 and of 8 bytes otherwise.
RECURSIVE RecordsByFirstWord(_, _)
RecordsByFirstWord(s, n) ==
    IF n <= 0 THEN <<>>
    ELSE LET hdr == IF Word(s) = 16 THEN 12 ELSE 8
         IN  <<[pos |-> s + hdr, len |-> Word(s + hdr - 4)]>>
                 \o RecordsByFirstWord(s + hdr + Word(s + hdr - 4), n - 1)

VcardHandlerSucceeded ==
    /\ NbuReadSectionEntry
    /\ last'.entry /\ last'.ok
    /\ last'.h \in {"calendar", "contacts"}

\* C16 as stated: the items a successful calendar or contacts handler
\* records lie 12 bytes after the start of their records, each record
\* starting where the item before it ends, whatever the validation words.
C16_ItemTwelveBytesAfterRecordStart ==
    [][VcardHandlerSucceeded =>
          ctx'[last'.h].q =
              RecordsTwelve(last'.spos + 48, Word(last'.spos + 44))]_vars

\* C16 amended: the item lies 12 bytes after the start of a record whose
\* first word is 0x10 and 8 bytes after the start of any other record, whose
\* second word is then taken as the length; the next record starts where the
\* item ends.
C16_ItemAfterWordsRead ==
    [][VcardHandlerSucceeded =>
          ctx'[last'.h].q =
              RecordsByFirstWord(last'.spos + 48, Word(last'.spos + 44))]_vars

\* C16 witness: a calendar handler succeeded on records whose first word is
\* 17; its first item lies 8 bytes after the start of the first record.
C16_Witness ==
    /\ last.entry /\ last.ok /\ last.h = "calendar"
    /\ Word(last.spos + 44) = 2
    /\ Word(last.spos + 48) = 17
    /\ Len(ctx.calendar.q) = 2
    /\ ctx.calendar.q[1] = [pos |-> last.spos + 56, len |-> 0]

FlatKinds == {"calendar", "contacts", "memos"}

Collections ==
    {"bookmarks", "messages", "mmses", "calendar", "contacts", "memos"}

\* C17: a handler that succeeds leaves the stream 8 bytes past where it
\* started for calendar, contacts and memos, and 8 + 12 * folder count bytes
\* past it for bookmarks, messages, MMS, groups and advanced settings, the
\* folder count being the second word the handler reads; the groups and
\* advanced-settings handlers leave the six collections as they were.
C17_CursorAfterHandler ==
    [][(NbuReadSectionEntry /\ last'.entry /\ last'.ok) =>
          /\ last'.h \in FlatKinds => cur' = last'.hcur + 8
          /\ last'.h \notin FlatKinds =>
                cur' = last'.hcur + 8 + 12 * Word(last'.hcur + 4)
          /\ last'.h \in {"groups", "advanced_settings"} =>
                \A c \in Collections : ctx'[c] = ctx[c]]_vars

\* C17 witness: after a calendar section that recorded items, a groups
\* handler with at least one folder succeeded, left the stream 12 bytes per
\* folder past its two counts and the context as it was.
C17_Witness ==
    /\ pc = "section_loop"
    /\ last.entry /\ last.ok /\ last.h = "groups"
    /\ Word(last.hcur + 4) >= 1
    /\ cur = last.hcur + 8 + 12 * Word(last.hcur + 4)
    /\ ctx = last.before
    /\ ctx.calendar.q # <<>>

IsPrefix(a, b) == Len(a) <= Len(b) /\ SubSeq(b, 1, Len(a)) = a

\* C18 as stated: a handler that succeeds only appends to the collections:
\* what each of the six lists held before it is a prefix of what it holds
\* after, so that two sections of one kind leave the records of both, in
\* file order, and the list of the first is neither dropped nor leaked.
C18_CollectionsAppendOnly ==
    [][(NbuReadSectionEntry /\ last'.entry /\ last'.ok) =>
          /\ \A c \in Collections : IsPrefix(ctx[c].q, ctx'[c].q)
          /\ allocs' - frees' = Cardinality(ListsHeld(ctx'))]_vars

\* C18 witness: the open succeeded on a file with two calendar sections; the
\* list of the first, which held an item, was replaced by the list of the
\* second, which does not hold that item, and was never released.
C18_FirstListReplaced ==
    /\ pc = "opened" /\ open_ret = 0
    /\ nsections = 2
    /\ last.h = "calendar" /\ last.ok
    /\ last.before.calendar.alloc
    /\ last.before.calendar.q # <<>>
    /\ \A i \in 1..Len(ctx.calendar.q) :
           ctx.calendar.q[i] # last.before.calendar.q[1]
    /\ allocs = 2 /\ frees = 0
    /\ Cardinality(ListsHeld(ctx)) = 1

\* A call that was given an empty directory.
IntoEmpty(c) == c.fs0 = <<>> /\ c.dirs0 = {}

ExportStep ==
    \/ NbuExport
    \/ NbuExportCalendar
    \/ NbuExportContacts
    \/ NbuExportMemos
    \/ NbuExportMessages
    \/ NbuExportReturn

\* C19: no step of nbu_export changes the context or the file, and a call
\* that returns after an earlier call, both given an empty directory and the
\* same outcome of malloc(0), leaves the same files and subdirectories and
\* returns the same value, wherever the stream was at the entry of each.
C19_ExportRepeatable ==
    [][/\ ExportStep => (ctx' = ctx /\ file' = file)
       /\ NbuExportReturn =>
             \A j \in 1..Len(calls) :
                 LET a == calls[j]
                     b == calls'[Len(calls')]
                 IN  (IntoEmpty(a) /\ IntoEmpty(b) /\ a.env = b.env) =>
                         (a.fs = b.fs /\ a.dirs = b.dirs /\ a.ret = b.ret)]_vars

\* C19 witness: two calls returned, both given an empty directory, the
\* second entered with the stream where the first left it; both left the
\* same files, a memo among them.
C19_Witness ==
    /\ pc = "opened" /\ Len(calls) = 2
    /\ IntoEmpty(calls[1]) /\ IntoEmpty(calls[2])
    /\ calls[1].cur0 # calls[2].cur0
    /\ calls[1].env = calls[2].env
    /\ calls[1].fs = calls[2].fs
    /\ calls[1].ret = calls[2].ret
    /\ MemoName(1) \in DOMAIN calls[2].fs
    /\ NBU_CALENDAR_FILE \in DOMAIN calls[2].fs

\* C20 as stated, the part about seeks: a handler that sought past the end
\* of the file (an item it recorded ends past the end, and the handler sought
\* to where the item ends) met a failing read, which aborted the open.
C20_SeekPastEndAbortsOpen ==
    [][(/\ NbuReadSectionEntry
        /\ \E q \in ItemLists(ctx') : \E k \in 1..Len(q) :
               q[k].pos + q[k].len > Len(file)) => ~last'.ok]_vars

\* C20 amended: nbu_open returns on every input: an iteration of the section
\* loop that succeeds has consumed the 32 bytes of its entry and the 8 bytes
\* of the two counts at least, an iteration entered at or past the end of
\* the file fails and aborts the open, and the open eventually returns.  A
\* seek past the end fails nothing by itself.
C20_OpenTerminates ==
    /\ [][NbuReadSectionEntry =>
             /\ last'.ok => cur' >= cur + 40
             /\ cur >= Len(file) => (~last'.ok /\ pc' = "open_failed")]_vars
    /\ <>(open_ret # 1)

\* C20 witness: the file declares 0x7FFFFFFF sections (a count the model
\* keeps as Far) and holds one; the
\* second iteration of the loop, entered after the first consumed its entry,
\* met the end of the file inside its entry and the open returned -1.
C20_Witness ==
    /\ open_ret = -1
    /\ pc = "open_failed"
    /\ nsections = Far
    /\ sec_i = 2
    /\ ~last.entry /\ ~last.ok
    /\ last.start >= Len(FileHeader) + 4 + 40
    /\ cur = Len(file)

====
